---- MODULE Spec2Model ----
(***************************************************************************)
(* A model of BlenderSynth's job runner (blendersynth/run), of its         *)
(* RenderResult, of run_this_script / ArgumentParser and of the            *)
(* Compositor's node-tree construction.                                    *)
(*                                                                         *)
(* Each subsystem has its own group of variables and its own               *)
(* specification (SpecRun, SpecSplit, SpecRR, SpecArgs, SpecComp); the     *)
(* variables of the other groups are held at their idle values.            *)
(***************************************************************************)
EXTENDS Integers, Sequences, FiniteSets, TLC

(***************************************************************************)
(* Bounds of the model.                                                    *)
(***************************************************************************)
\* longest job list given to execute_jobs
MaxJobs == 3
\* largest num_threads
MaxThreads == 2
\* the value given for MAX_PER_JOB (the code's default is 100)
MaxPerJob == 2
\* the value given for timeout, in clock ticks (the code's default is 100)
Timeout == 2
\* the clock (perf_counter) stops at this value
MaxTime == 3

None == "None"

Max(a, b) == IF a >= b THEN a ELSE b


(***************************************************************************)
(* Splitting a job list: numpy.array_split as used by _list_split.         *)
(***************************************************************************)
\* np.ceil(a / b) for a >= 0, b >= 1
Ceil(a, b) == (a + b - 1) \div b

\* numpy.array_split raises ValueError for a section count <= 0
_list_split_raises(list, chunks) == chunks <= 0

\* numpy.array_split(list, chunks): the first (n mod chunks) sections hold
\* n div chunks + 1 elements, the others n div chunks
_list_split(list, chunks) ==
    LET n     == Len(list)
        each  == n \div chunks
        extra == n % chunks
        start(i) == (i - 1) * each + (IF i - 1 < extra THEN i - 1 ELSE extra)
        size(i)  == each + (IF i <= extra THEN 1 ELSE 0)
    IN  [i \in 1..chunks |-> SubSeq(list, start(i) + 1, start(i) + size(i))]

\* BlenderThread.__init__ raises when its _list_split does
BlenderThread_raises(jobs, MAX_PER_JOB) ==
    _list_split_raises(jobs, Ceil(Len(jobs), MAX_PER_JOB))

\* a BlenderThread variant that rounds the number of chunks down
BlenderThread_floor(jobs, clock, timeout, MAX_PER_JOB) ==
    LET split == _list_split(jobs, Max(1, Len(jobs) \div MAX_PER_JOB))
    IN  [jobs     |-> split,
         njobs    |-> Len(split),
         size     |-> Len(jobs),
         timeout  |-> timeout,
         prev_n   |-> 0,
         timer    |-> clock,
         process  |-> None,
         job      |-> -1,
         finished |-> FALSE,
         status   |-> <<"STARTED THREAD">>]

\* BlenderThread.__init__: the fields of the new thread object
BlenderThread(jobs, clock, timeout, MAX_PER_JOB) ==
    LET split == _list_split(jobs, Ceil(Len(jobs), MAX_PER_JOB))
    IN  [jobs     |-> split,
         njobs    |-> Len(split),
         size     |-> Len(jobs),
         timeout  |-> timeout,
         prev_n   |-> 0,
         timer    |-> clock,
         process  |-> None,
         job      |-> -1,
         finished |-> FALSE,
         status   |-> <<"STARTED THREAD">>]

\* BlenderThreadManager.__init__ raises when one of its threads cannot be built
BlenderThreadManager_raises(jsons, MAX_PER_JOB) ==
    \E i \in 1..Len(jsons) : BlenderThread_raises(jsons[i], MAX_PER_JOB)

\* BlenderThreadManager.__init__: one BlenderThread per element of jsons
BlenderThreadManager(jsons, clock, timeout, MAX_PER_JOB) ==
    [i \in 1..Len(jsons) |-> BlenderThread(jsons[i], clock, timeout, MAX_PER_JOB)]

VARIABLES
    \* ---- the job runner (BlenderThreadManager.start and its subprocesses)
    progress_bars,  \* the argument of start()
    mpc,            \* where the manager is in start()
    mi,             \* the thread index of the manager's current loop
    threads,        \* the BlenderThread objects
    blender,        \* per thread: where its current Blender subprocess is
    progress,       \* per thread: the progress log file
    now,            \* perf_counter()
    hist            \* history: what happened, for stating the properties

runVars == <<progress_bars, mpc, mi, threads, blender, progress, now, hist>>

VARIABLES
    \* ---- execute_jobs on the machines of a distributed run
    ej_args,        \* the arguments every machine passes to execute_jobs
    runners         \* per machine index: what its Runner.__init__ built

splitVars == <<ej_args, runners>>

VARIABLES
    \* ---- a RenderResult and the last call made on it
    render_paths,   \* RenderResult._render_paths
    rr_call         \* the last call: its arguments and what it did

rrVars == <<render_paths, rr_call>>

VARIABLES
    \* ---- a script that calls run_this_script, run from plain Python
    script,         \* the script: its parser, or the keyword arguments it passes
    cli,            \* the command line given to the script (sys.argv[1:])
    apc,            \* where the script is
    outer_ns,       \* what parse_args returned in plain Python
    rts_call,       \* the call of run_this_script made in plain Python
    sys_argv,       \* sys.argv of the script inside Blender
    inner_ns,       \* what parse_args returned inside Blender
    sys_path_file   \* the file run_this_script loads sys.path from in Blender

argVars == <<script, cli, apc, outer_ns, rts_call, sys_argv, inner_ns, sys_path_file>>

\* the Compositor of a script running inside Blender
VARIABLES
    comp,        \* the Compositor object with the node tree and scene settings it owns
    cpc,         \* where the script is: "idle", "script", "rendered", "raised"
    files,       \* the image files the render has written
    defined,     \* the define_output calls made so far
    render_ret,  \* what Compositor.render returned
    ccall        \* the last stack_visuals or update_* call: arguments, compositor before, outcome

compVars == <<comp, cpc, files, defined, render_ret, ccall>>

\* one call of Compositor.render with one or several cameras
VARIABLES
    rcall,   \* the call: cameras, annotations, animation, frames, and the outputs defined
    rpc,     \* "idle", "loop" (inside the loop over cameras), "returned", "raised"
    ri,      \* the index of the next camera of the loop
    disk,    \* the files on disk: path -> which output, camera and frame it shows
    rlog     \* what each iteration of the loop did, in order

camVars == <<rcall, rpc, ri, disk, rlog>>

\* one BlenderThread, one of its Blender subprocesses, and the Inputs it builds
VARIABLES
    jargs,    \* the jobs, MAX_PER_JOB and the extra script keyword arguments
    jpc,      \* "idle", "new", "built", "raised", "started", "read"
    jthread,  \* the BlenderThread object
    jproc,    \* the subprocess started: the chunk index and the command
    jread     \* Inputs.jsons in the subprocess

jobVars == <<jargs, jpc, jthread, jproc, jread>>

\* two AnnotationHandlers and one call of union on them or on two of their Annotations
VARIABLES
    ann_self,   \* the handler the method is called on: camera name -> Annotation
    ann_other,  \* the handler passed as `other`
    ann_call    \* the call made: what was called, its arguments, what it returned or raised

annVars == <<ann_self, ann_other, ann_call>>

\* one Blender scene, the Mesh and AOV objects built in it, and one Compositor's AOV list
VARIABLES
    bpy_scene,    \* the scene's custom properties NUM_MESHES and MAX_CLASSES
    bpy_objects,  \* the Blender objects: whether still in bpy.data.objects, and their custom properties
    mesh_list,    \* the Mesh wrappers whose constructor returned, in creation order
    aov_list,     \* the AttrRGBAOV objects built, in order: their class, the divisor of
                  \* div_node, and the divisor they were built with
    self_aovs,    \* Compositor.aovs, as indices into aov_list
    by_name,      \* the AOVs whose pass was given to define_output as a string
    mcall         \* whether the last call made was a render

meshVars == <<bpy_scene, bpy_objects, mesh_list, aov_list, self_aovs, by_name, mcall>>

\* the blendersynth temp directory of one machine and the sessions that share it
VARIABLES
    tempdir,    \* the names of the files in the directory
    sessions    \* per session: how it was started, where it is, the temp files it
                \* created and has not finished with, and the ones it found missing

tempVars == <<tempdir, sessions>>

vars == <<runVars, splitVars, rrVars, argVars, compVars, camVars, jobVars, annVars, meshVars, tempVars>>

\* an optional argument: left out (None), or given
Nothing == [some |-> FALSE]
Some(x) == [some |-> TRUE, v |-> x]

\* the values of a group of variables while another subsystem is checked
IdleRun ==
    /\ progress_bars = FALSE /\ mpc = "idle" /\ mi = 0 /\ threads = <<>>
    /\ blender = <<>> /\ progress = <<>> /\ now = 0 /\ hist = <<>>
IdleSplit == ej_args = <<>> /\ runners = <<>>
IdleRR == render_paths = <<>> /\ rr_call = <<>>
IdleArgs ==
    /\ script = <<>> /\ cli = <<>> /\ apc = "idle" /\ outer_ns = <<>>
    /\ rts_call = <<>> /\ sys_argv = <<>> /\ inner_ns = <<>> /\ sys_path_file = ""
IdleComp ==
    /\ comp = <<>> /\ cpc = "idle" /\ files = {} /\ defined = {} /\ render_ret = <<>>
    /\ ccall = <<>>
IdleJobs ==
    /\ jargs = <<>> /\ jpc = "idle" /\ jthread = <<>> /\ jproc = <<>> /\ jread = <<>>
IdleCam ==
    /\ rcall = <<>> /\ rpc = "idle" /\ ri = 0 /\ disk = <<>> /\ rlog = <<>>
IdleAnn == ann_self = <<>> /\ ann_other = <<>> /\ ann_call = <<>>
IdleTemp == tempdir = {} /\ sessions = <<>>
IdleMesh ==
    /\ bpy_scene = <<>> /\ bpy_objects = <<>> /\ mesh_list = <<>> /\ aov_list = <<>>
    /\ self_aovs = <<>> /\ by_name = {} /\ mcall = ""

(***************************************************************************)
(* The job runner.                                                         *)
(***************************************************************************)
ThreadIds == DOMAIN threads

\* the variables the job runner leaves alone
notRun == <<splitVars, rrVars, argVars, compVars, camVars, jobVars, annVars, meshVars, tempVars>>

\* BlenderThread.is_running: process.poll() is None
is_running(t) == threads[t].process # None /\ threads[t].process = "alive"

\* BlenderThread.num_rendered: the number of lines of the progress log
num_rendered(t) ==
    IF threads[t].process = None \/ ~progress[t].isfile THEN 0
    ELSE progress[t].lines

\* BlenderThread.success
success(t) == num_rendered(t) = threads[t].size

\* BlenderThread.check_in on thread object th (running: its is_running)
check_in(th, running) ==
    IF running THEN th
    ELSE IF th.job + 1 >= th.njobs
         THEN [th EXCEPT !.job = @ + 1, !.finished = TRUE,
                         !.status = <<"COMPLETED">>]
         ELSE \* start_job(self.job): Popen
              [th EXCEPT !.job = @ + 1,
                         !.status = <<"RUNNING JOB", th.job + 2, th.njobs>>,
                         !.process = "alive"]

\* a variant of check_in_starts that does not wait for the running subprocess
check_in_starts_while_running(th, running) == th.job + 1 < th.njobs
\* whether that check_in reaches start_job
check_in_starts(th, running) == ~running /\ th.job + 1 < th.njobs

\* a variant of check_status whose timer is not reset by progress
check_status_no_reset(th, n, clock) ==
    IF n > th.prev_n
    THEN [self |-> [th EXCEPT !.prev_n = n], ret |-> TRUE]
    ELSE IF clock - th.timer >= th.timeout
         THEN [self |-> [th EXCEPT !.status = <<"FAILED [TIMEOUT]">>],
               ret |-> FALSE]
         ELSE [self |-> th, ret |-> TRUE]

\* BlenderThread.check_status on thread object th, which reads n rendered at
\* time clock: the thread afterwards and the value returned
check_status(th, n, clock) ==
    IF n > th.prev_n
    THEN [self |-> [th EXCEPT !.prev_n = n, !.timer = clock], ret |-> TRUE]
    ELSE IF clock - th.timer >= th.timeout
         THEN [self |-> [th EXCEPT !.status = <<"FAILED [TIMEOUT]">>],
               ret |-> FALSE]
         ELSE [self |-> th, ret |-> TRUE]

\* history of the manager's last step, when it was a check_status call: what
\* the call read and returned, and the thread's subprocess before the call
NoCheck == [called |-> FALSE, thread |-> 0, n |-> 0, at |-> 0, ret |-> TRUE,
            seenMax |-> 0, seenAt |-> 0,
            starts |-> 0, kills |-> 0, process |-> None]

Gone == [phase |-> "gone", jsons |-> <<>>, idx |-> 0]

\* The state in which start() is called on a manager built for n jobs split
\* over k threads: every thread was constructed (at time 0).
InitRun ==
    \E k \in 1..MaxThreads, n \in 1..MaxJobs, pb \in BOOLEAN :
        LET jsons       == [i \in 1..n |-> i]
            json_chunks == _list_split(jsons, k)
        IN  /\ ~BlenderThreadManager_raises(json_chunks, MaxPerJob)
            /\ threads = BlenderThreadManager(json_chunks, 0, Timeout, MaxPerJob)
            /\ progress_bars = pb
            /\ mpc = "start_check_in"
            /\ mi = 1
            /\ blender = [t \in 1..k |-> Gone]
            /\ progress = [t \in 1..k |-> [isfile |-> FALSE, lines |-> 0]]
            /\ now = 0
            /\ IdleSplit /\ IdleRR /\ IdleArgs /\ IdleComp /\ IdleCam /\ IdleJobs /\ IdleAnn /\ IdleMesh /\ IdleTemp
            /\ hist = [done    |-> [t \in 1..k |-> 0],
                       starts  |-> [t \in 1..k |-> 0],
                       kills   |-> [t \in 1..k |-> 0],
                       seenMax |-> [t \in 1..k |-> 0],
                       seenAt  |-> [t \in 1..k |-> 0],
                       check   |-> NoCheck]

\* sleep(): the clock advances (it is read by check_status only, so time that
\* passes elsewhere is counted at the next sleep); the model's clock stops at
\* MaxTime
sleep == \E d \in {0, 1} : now' = (IF now + d > MaxTime THEN now ELSE now + d)

\* the effect of thread t's check_in on the thread, its subprocess and the history
DoCheckIn(t) ==
    LET th  == threads[t]
        run == is_running(t)
        new == check_in(th, run)
    IN  /\ threads' = [threads EXCEPT ![t] = new]
        /\ IF check_in_starts(th, run)
           THEN /\ blender' = [blender EXCEPT ![t] =
                       [phase |-> "boot", jsons |-> th.jobs[new.job + 1], idx |-> 0]]
                /\ hist' = [hist EXCEPT !.starts[t] = @ + 1, !.check = NoCheck]
           ELSE /\ blender' = blender
                /\ hist' = [hist EXCEPT !.check = NoCheck]

\* start(), lines 244-246: check_in of every thread in turn; without
\* progress bars start() then returns (lines 253-304 are under the if)
StartCheckIn ==
    /\ mpc = "start_check_in"
    /\ DoCheckIn(mi)
    /\ sleep
    /\ IF mi < Len(threads)
       THEN mi' = mi + 1 /\ mpc' = mpc
       ELSE mi' = 1 /\ mpc' = (IF progress_bars THEN "while" ELSE "returned")
    /\ UNCHANGED <<notRun, progress_bars, progress>>

\* start(), lines 266-267: while any(t.is_running for t in self.threads),
\* then sleep(tick)
WhileCond ==
    /\ mpc = "while"
    /\ IF \E t \in ThreadIds : is_running(t)
       THEN mpc' = "for_check_in" /\ sleep
       ELSE mpc' = "report" /\ now' = now
    /\ mi' = 1
    /\ hist' = [hist EXCEPT !.check = NoCheck]
    /\ UNCHANGED <<notRun, progress_bars, threads, blender, progress>>

\* the for loop of lines 284-302 moves to the next thread, or back to the while
NextThread ==
    IF mi < Len(threads)
    THEN mi' = mi + 1 /\ mpc' = "for_check_in"
    ELSE mi' = 1 /\ mpc' = "while"

\* lines 285-288: skip a finished thread, else check_in
ForCheckIn ==
    /\ mpc = "for_check_in"
    /\ IF threads[mi].finished
       THEN /\ NextThread
            /\ hist' = [hist EXCEPT !.check = NoCheck]
            /\ UNCHANGED <<threads, blender>>
       ELSE DoCheckIn(mi) /\ mpc' = "for_success" /\ mi' = mi
    /\ UNCHANGED <<notRun, progress_bars, progress, now>>

\* line 290: if thread.success
ForSuccess ==
    /\ mpc = "for_success"
    /\ IF success(mi) THEN NextThread ELSE mpc' = "for_check_status" /\ mi' = mi
    /\ UNCHANGED <<notRun, progress_bars, threads, blender, progress, now, hist>>

\* lines 294-300: thread_running = thread.check_status(); on False the
\* manager does nothing more ("currently will only notify the user")
\* a variant of OnTimeout that terminates the thread's process
OnTimeout_kill(th) == [th EXCEPT !.process = IF @ = None THEN @ ELSE "dead"]

OnTimeout(th) == th

ForCheckStatus ==
    /\ mpc = "for_check_status"
    /\ LET th  == threads[mi]
           n   == num_rendered(mi)
           res == check_status(th, n, now)
           inc == n > hist.seenMax[mi]
           new == IF res.ret THEN res.self ELSE OnTimeout(res.self)
       IN  /\ threads' = [threads EXCEPT ![mi] = new]
           /\ blender' = IF new.process = th.process THEN blender
                         ELSE [blender EXCEPT ![mi] = Gone]
           /\ hist' = [hist EXCEPT
                 !.kills[mi] = IF new.process = th.process THEN @ ELSE @ + 1,
                 !.check = [called |-> TRUE, thread |-> mi, n |-> n, at |-> now,
                            ret |-> res.ret,
                            seenMax |-> hist.seenMax[mi],
                            seenAt |-> hist.seenAt[mi],
                            starts |-> hist.starts[mi],
                            kills |-> hist.kills[mi],
                            process |-> th.process],
                 !.seenMax[mi] = Max(@, n),
                 !.seenAt[mi] = IF inc THEN now ELSE @]
    /\ NextThread
    /\ UNCHANGED <<notRun, progress_bars, progress, now>>

\* line 304: update_report(), then start() returns
Report ==
    /\ mpc = "report"
    /\ mpc' = "returned"
    /\ hist' = [hist EXCEPT !.check = NoCheck]
    /\ UNCHANGED <<notRun, progress_bars, mi, threads, blender, progress, now>>

\* BlenderThreadManager.terminate, registered with atexit: kill every process
AtExit ==
    /\ mpc = "returned"
    /\ mpc' = "exited"
    /\ threads' = [t \in ThreadIds |->
                     IF threads[t].process = None THEN threads[t]
                     ELSE [threads[t] EXCEPT !.process = "dead"]]
    /\ blender' = [t \in ThreadIds |-> Gone]
    /\ hist' = [hist EXCEPT !.check = NoCheck,
                             !.kills = [t \in ThreadIds |->
                     IF threads[t].process = None THEN @[t] ELSE @[t] + 1]]
    /\ UNCHANGED <<notRun, progress_bars, mi, progress, now>>

(***************************************************************************)
(* The Blender subprocess of a thread: the user's script iterating Inputs. *)
(***************************************************************************)
\* Inputs.__iter__ after the line "RENDERED" of job idx (or at the start,
\* idx = 0): the next job is opened and yielded, or the iteration ends
InputsAdvance(b) ==
    IF b.idx < Len(b.jsons)
    THEN [b EXCEPT !.phase = "body", !.idx = @ + 1]
    ELSE [b EXCEPT !.phase = "tail"]

\* a variant of LinesLogged that logs the job however the yield is left
LinesLogged_in_finally(how) == 1

\* Inputs.__iter__, lines 40-43: the lines written to the progress log when
\* the generator leaves the yield of a job: one (logging.info) when it is
\* resumed by the next next(), none when it is closed there (the body raised
\* or left the loop: GeneratorExit skips line 43)
LinesLogged(how) == IF how = "resume" THEN 1 ELSE 0

\* the script builds Inputs() (logging.basicConfig opens the log in append
\* mode) and enters its for loop
SubInputs(t) ==
    /\ is_running(t) /\ blender[t].phase = "boot"
    /\ progress' = [progress EXCEPT ![t].isfile = TRUE]
    /\ blender' = [blender EXCEPT ![t] = InputsAdvance(@)]
    /\ UNCHANGED <<notRun, progress_bars, mpc, mi, threads, now, hist>>

\* the loop body of the current job completes and the for statement asks
\* for the next job: the generator resumes and logs the job
SubBodyDone(t) ==
    /\ is_running(t) /\ blender[t].phase = "body"
    /\ progress' = [progress EXCEPT ![t].lines = @ + LinesLogged("resume")]
    /\ blender' = [blender EXCEPT ![t] = InputsAdvance(@)]
    /\ hist' = [hist EXCEPT !.done[t] = @ + 1]
    /\ UNCHANGED <<notRun, progress_bars, mpc, mi, threads, now>>

\* the loop body raises: the script dies, the generator is closed
SubBodyRaise(t) ==
    /\ is_running(t) /\ blender[t].phase = "body"
    /\ progress' = [progress EXCEPT ![t].lines = @ + LinesLogged("close")]
    /\ blender' = [blender EXCEPT ![t] = Gone]
    /\ threads' = [threads EXCEPT ![t].process = "dead"]
    /\ UNCHANGED <<notRun, progress_bars, mpc, mi, now, hist>>

\* the loop body leaves the loop (break): the job is abandoned
SubBreak(t) ==
    /\ is_running(t) /\ blender[t].phase = "body"
    /\ progress' = [progress EXCEPT ![t].lines = @ + LinesLogged("close")]
    /\ blender' = [blender EXCEPT ![t].phase = "tail"]
    /\ UNCHANGED <<notRun, progress_bars, mpc, mi, threads, now, hist>>

\* the script ends, or Blender dies before the script built Inputs
SubExit(t) ==
    /\ is_running(t) /\ blender[t].phase \in {"tail", "boot"}
    /\ blender' = [blender EXCEPT ![t] = Gone]
    /\ threads' = [threads EXCEPT ![t].process = "dead"]
    /\ UNCHANGED <<notRun, progress_bars, mpc, mi, progress, now, hist>>

NextRun ==
    \/ StartCheckIn
    \/ WhileCond
    \/ ForCheckIn
    \/ ForSuccess
    \/ ForCheckStatus
    \/ Report
    \/ AtExit
    \/ \E t \in ThreadIds : SubInputs(t)
    \/ \E t \in ThreadIds : SubBodyDone(t)
    \/ \E t \in ThreadIds : SubBodyRaise(t)
    \/ \E t \in ThreadIds : SubBreak(t)
    \/ \E t \in ThreadIds : SubExit(t)

SpecRun == InitRun /\ [][NextRun]_vars

(***************************************************************************)
(* Properties of the job runner.                                           *)
(***************************************************************************)
TimedOut == hist.check.called /\ ~hist.check.ret

\* C1 (as stated): when check_status reports a timeout for a thread whose
\* subprocess is running, the manager kills or restarts that subprocess: it
\* is not left running untouched.
C1_TimedOutKilledOrRetried ==
    (TimedOut /\ hist.check.process = "alive") =>
        LET t == hist.check.thread
        IN  \/ hist.kills[t] > hist.check.kills
            \/ hist.starts[t] > hist.check.starts

\* C1 (amended): on a timeout the manager only notifies: the thread's status
\* is FAILED [TIMEOUT], and the manager has neither killed nor restarted the
\* subprocess nor moved the thread to another job.
C1_TimeoutOnlyNotifies ==
    TimedOut =>
        LET t == hist.check.thread
        IN  /\ threads[t].status = <<"FAILED [TIMEOUT]">>
            /\ hist.kills[t] = hist.check.kills
            /\ hist.starts[t] = hist.check.starts
            /\ hist.check.process = "alive" =>
                   (is_running(t) \/ blender[t] = Gone)

\* a timeout was reported for a thread whose subprocess is still running
C1_Witness ==
    /\ TimedOut
    /\ hist.check.process = "alive"
    /\ is_running(hist.check.thread)

\* C6: check_status returns False, and sets the status to FAILED [TIMEOUT],
\* exactly when the count it reads does not exceed every count read by the
\* earlier calls and at least timeout has passed since the last call that
\* read an increase (or since construction); a call that reads an increase
\* returns True and restarts the timer at the time of that call.
C6_CheckStatus ==
    hist.check.called =>
        LET c       == hist.check
            t       == c.thread
            stalled == c.n <= c.seenMax /\ c.at - c.seenAt >= Timeout
        IN  /\ c.ret = ~stalled
            /\ ~c.ret => threads[t].status = <<"FAILED [TIMEOUT]">>
            /\ c.n > c.seenMax =>
                   /\ c.ret
                   /\ threads[t].timer = c.at
                   /\ threads[t].prev_n = c.n

\* a timeout is reported after progress had been seen and the timer restarted
C6_Witness ==
    /\ TimedOut
    /\ hist.check.seenMax > 0
    /\ hist.check.seenAt > 0

\* C7: at every moment the count a thread reads from its progress log is
\* the number of jobs whose loop body completed (the for statement went on
\* to ask for the next job); a job whose body raised or left the loop is
\* not counted.
C7_RenderedIsBodiesDone ==
    \A t \in ThreadIds : num_rendered(t) = hist.done[t]

\* a thread has finished with some job counted and some job not completed
C7_Witness ==
    \E t \in ThreadIds :
        /\ threads[t].finished
        /\ hist.done[t] >= 1
        /\ hist.done[t] < threads[t].size
        /\ num_rendered(t) = hist.done[t]

(***************************************************************************)
(* execute_jobs on every machine of a distributed run (Runner.__init__).   *)
(***************************************************************************)
\* largest total_machines
MaxMachines == 3

NotRun == [ran |-> FALSE]

\* Runner.__init__ up to the construction of the thread manager: the
\* exception raised, or the threads built (thread_manager.start() is SpecRun)
Runner(jsons, num_threads, distributed) ==
    IF distributed.some /\ ~(distributed.v[1] < distributed.v[2])
    THEN [ran |-> TRUE, raised |-> "AssertionError", threads |-> <<>>]
    ELSE LET mine == IF distributed.some
                     THEN _list_split(jsons, distributed.v[2])[distributed.v[1] + 1]
                     ELSE jsons
             json_chunks == _list_split(mine, num_threads)
         IN  IF BlenderThreadManager_raises(json_chunks, MaxPerJob)
             THEN [ran |-> TRUE, raised |-> "ValueError", threads |-> <<>>]
             ELSE [ran |-> TRUE, raised |-> None,
                   threads |-> BlenderThreadManager(json_chunks, 0, Timeout, MaxPerJob)]

\* the machine indices of the run: 0 .. total_machines - 1, or the one
\* machine of a run that is not distributed
Machines == DOMAIN runners

\* the distributed argument machine m passes
Distributed(m) ==
    IF ej_args.total_machines.some
    THEN Some(<<m, ej_args.total_machines.v>>)
    ELSE Nothing

InitSplit ==
    \E n \in 0..MaxJobs, k \in 1..MaxThreads,
       tm \in {Nothing} \cup {Some(x) : x \in 1..MaxMachines} :
        /\ ej_args = [json_src |-> [i \in 1..n |-> i], num_threads |-> k,
                      total_machines |-> tm]
        /\ runners = [m \in 0..(IF tm.some THEN tm.v - 1 ELSE 0) |-> NotRun]
        /\ IdleRun /\ IdleRR /\ IdleArgs /\ IdleComp /\ IdleCam /\ IdleJobs /\ IdleAnn /\ IdleMesh /\ IdleTemp

\* machine m calls execute_jobs(script, json_src, ..., num_threads, distributed)
ExecuteJobs(m) ==
    /\ ~runners[m].ran
    /\ runners' = [runners EXCEPT ![m] =
                      Runner(ej_args.json_src, ej_args.num_threads, Distributed(m))]
    /\ UNCHANGED <<ej_args, runVars, rrVars, argVars, compVars, camVars, jobVars, annVars, meshVars, tempVars>>

NextSplit == \E m \in Machines : ExecuteJobs(m)

SpecSplit == InitSplit /\ [][NextSplit]_vars

\* where job j is: the (machine, thread, chunk, position) places holding it
Places(j) ==
    UNION {UNION {UNION {{<<m, t, c, i>> : i \in {x \in DOMAIN runners[m].threads[t].jobs[c] :
                                                     runners[m].threads[t].jobs[c][x] = j}} :
                         c \in DOMAIN runners[m].threads[t].jobs} :
                  t \in DOMAIN runners[m].threads} :
           m \in {x \in Machines : runners[x].ran}}

AllRan == \A m \in Machines : runners[m].ran

\* C5: once every machine index has run execute_jobs on the same list, each
\* job file is in exactly one chunk of one thread of one machine.
C5_EachJobAssignedOnce ==
    AllRan => \A j \in DOMAIN ej_args.json_src : Cardinality(Places(ej_args.json_src[j])) = 1

\* C5 holds of the runs in which no Runner raised
C5_AssignedOnceUnlessRaised ==
    (AllRan /\ \A m \in Machines : runners[m].raised = None) =>
        \A j \in DOMAIN ej_args.json_src : Cardinality(Places(ej_args.json_src[j])) = 1

(***************************************************************************)
(* RenderResult.  Names and paths are strings, written as sequences of     *)
(* characters.                                                             *)
(***************************************************************************)
\* most entries of a RenderResult
MaxEntries == 2

\* the output keys, camera names, frame numbers and temp-file paths used
OutputTypes == {<<"a">>, <<"a", "_", "b">>}
CameraNames == {<<"c">>, <<"b", "_", "c">>}
Frames == {-1, 1, 12}
Paths == {<<"t", "/", "x", ".", "p">>, <<"t", ".", "d", "/", "y">>, <<".", "h">>}

Keys == OutputTypes \X CameraNames \X Frames

RECURSIVE Digits(_)
\* str(n) for n >= 0
Digits(n) ==
    LET d == <<"0", "1", "2", "3", "4", "5", "6", "7", "8", "9">>
    IN  IF n < 10 THEN <<d[n + 1]>> ELSE Digits(n \div 10) \o <<d[(n % 10) + 1]>>

RECURSIVE ZeroPad(_, _)
ZeroPad(str, width) == IF Len(str) >= width THEN str ELSE ZeroPad(<<"0">> \o str, width)

\* f"{frame:06d}": the sign, then zeros up to a width of 6 in all
format_06d(frame) ==
    IF frame < 0 THEN <<"-">> \o ZeroPad(Digits(-frame), 5)
    ELSE ZeroPad(Digits(frame), 6)

\* the last index of character ch in str, 0 when there is none
LastIndex(str, ch) ==
    LET at == {i \in DOMAIN str : str[i] = ch}
    IN  IF at = {} THEN 0 ELSE CHOOSE i \in at : \A k \in at : k <= i

\* os.path.splitext(path)[1]: from the last dot of the last component, unless
\* only dots precede it there
splitext_1(path) ==
    LET sep == LastIndex(path, "/")
        dot == LastIndex(path, ".")
    IN  IF dot > sep /\ \E i \in (sep + 1)..(dot - 1) : path[i] # "."
        THEN SubSeq(path, dot, Len(path))
        ELSE <<>>

\* RenderResult.__init__: camera_names, frames (lists of the distinct values)
camera_names(rp) == {k[2] : k \in DOMAIN rp}
frames(rp) == {k[3] : k \in DOMAIN rp}
num_cameras(rp) == Cardinality(camera_names(rp))
num_frames(rp) == Cardinality(frames(rp))

\* a variant of get_render_path that tests the camera count for the frame too
get_render_path_one_test(rp, output_type, camera_name, frame_number) ==
    IF ~camera_name.some /\ num_cameras(rp) # 1
    THEN [raised |-> "ValueError", value |-> <<>>]
    ELSE IF ~frame_number.some /\ num_cameras(rp) # 1
    THEN [raised |-> "ValueError", value |-> <<>>]
    ELSE LET cam == IF camera_name.some THEN camera_name.v
                    ELSE CHOOSE c \in camera_names(rp) : TRUE
             frm == IF frame_number.some THEN frame_number.v
                    ELSE CHOOSE f \in frames(rp) : TRUE
         IN  IF <<output_type, cam, frm>> \in DOMAIN rp
             THEN [raised |-> None, value |-> rp[<<output_type, cam, frm>>]]
             ELSE [raised |-> "KeyError", value |-> <<>>]

\* RenderResult.get_render_path on render paths rp: the exception raised, or
\* the path returned
get_render_path(rp, output_type, camera_name, frame_number) ==
    IF ~camera_name.some /\ num_cameras(rp) # 1
    THEN [raised |-> "ValueError", value |-> <<>>]
    ELSE IF ~frame_number.some /\ num_frames(rp) # 1
    THEN [raised |-> "ValueError", value |-> <<>>]
    ELSE LET cam == IF camera_name.some THEN camera_name.v
                    ELSE CHOOSE c \in camera_names(rp) : TRUE
             frm == IF frame_number.some THEN frame_number.v
                    ELSE CHOOSE f \in frames(rp) : TRUE
         IN  IF <<output_type, cam, frm>> \in DOMAIN rp
             THEN [raised |-> None, value |-> rp[<<output_type, cam, frm>>]]
             ELSE [raised |-> "KeyError", value |-> <<>>]

\* a variant of save_all_fname that suppresses whatever the counts are
save_all_fname_no_count(rp, key, suppress_camera_name, suppress_frame_number) ==
    LET a == key[1]
        b == IF ~suppress_camera_name THEN a \o <<"_">> \o key[2] ELSE a
        c == IF ~suppress_frame_number THEN b \o <<"_">> \o format_06d(key[3]) ELSE b
    IN  c \o splitext_1(rp[key])

\* RenderResult.save_all, lines 88-99: the file name entry key is saved under
save_all_fname(rp, key, suppress_camera_name, suppress_frame_number) ==
    LET sc == suppress_camera_name /\ num_cameras(rp) = 1
        sf == suppress_frame_number /\ num_frames(rp) = 1
        a  == key[1]
        b  == IF ~sc THEN a \o <<"_">> \o key[2] ELSE a
        c  == IF ~sf THEN b \o <<"_">> \o format_06d(key[3]) ELSE b
    IN  c \o splitext_1(rp[key])

\* a RenderResult over any mapping of at most MaxEntries keys to paths
InitRR ==
    /\ \E ks \in SUBSET Keys :
          /\ Cardinality(ks) <= MaxEntries
          /\ render_paths \in [ks -> Paths]
    /\ rr_call = [op |-> "__init__"]
    /\ IdleRun /\ IdleSplit /\ IdleArgs /\ IdleComp /\ IdleCam /\ IdleJobs /\ IdleAnn /\ IdleMesh /\ IdleTemp

\* result.get_render_path(output_type, camera_name, frame_number)
GetRenderPath ==
    \E o \in OutputTypes,
       c \in {Nothing} \cup {Some(x) : x \in CameraNames},
       f \in {Nothing} \cup {Some(x) : x \in Frames} :
        /\ rr_call' = [op |-> "get_render_path", output_type |-> o,
                       camera_name |-> c, frame_number |-> f,
                       result |-> get_render_path(render_paths, o, c, f)]
        /\ UNCHANGED <<render_paths, runVars, splitVars, argVars, compVars, camVars, jobVars, annVars, meshVars, tempVars>>

\* result.save_all(output_directory, suppress_camera_name, suppress_frame_number):
\* the copies made into the directory
SaveAll ==
    \E sc \in BOOLEAN, sf \in BOOLEAN :
        /\ rr_call' = [op |-> "save_all", suppress_camera_name |-> sc,
                       suppress_frame_number |-> sf,
                       copies |-> {[key |-> k, src |-> render_paths[k],
                                    fname |-> save_all_fname(render_paths, k, sc, sf)] :
                                   k \in DOMAIN render_paths}]
        /\ UNCHANGED <<render_paths, runVars, splitVars, argVars, compVars, camVars, jobVars, annVars, meshVars, tempVars>>

NextRR == GetRenderPath \/ SaveAll

SpecRR == InitRR /\ [][NextRR]_vars

\* C3: get_render_path returns the path stored under exactly the key
\* (output, camera, frame); the camera may be left out only when the result
\* has exactly one camera and the frame only when it has exactly one frame
\* (the single value is then used); leaving either out when its count is
\* not 1 raises ValueError.
C3_GetRenderPath ==
    rr_call.op = "get_render_path" =>
        LET c    == rr_call.camera_name
            f    == rr_call.frame_number
            res  == rr_call.result
            cams == {k[2] : k \in DOMAIN render_paths}
            frms == {k[3] : k \in DOMAIN render_paths}
            bad  == \/ ~c.some /\ Cardinality(cams) # 1
                    \/ ~f.some /\ Cardinality(frms) # 1
        IN  /\ bad <=> res.raised = "ValueError"
            /\ ~bad =>
                 \E cam \in CameraNames, frm \in Frames :
                    /\ c.some => cam = c.v
                    /\ ~c.some => cams = {cam}
                    /\ f.some => frm = f.v
                    /\ ~f.some => frms = {frm}
                    /\ IF <<rr_call.output_type, cam, frm>> \in DOMAIN render_paths
                       THEN /\ res.raised = None
                            /\ res.value = render_paths[<<rr_call.output_type, cam, frm>>]
                       ELSE res.raised = "KeyError"

\* the camera is given and the frame left out, of a result with one frame
\* and two cameras, and the stored path is returned
C3_Witness ==
    /\ rr_call.op = "get_render_path"
    /\ rr_call.camera_name.some /\ ~rr_call.frame_number.some
    /\ Cardinality({k[2] : k \in DOMAIN render_paths}) = 2
    /\ rr_call.result.raised = None

\* C4: save_all names the file of entry (output, camera, frame)
\* {output}_{camera}_{frame:06d}{ext}, leaving the camera part out exactly
\* when suppress_camera_name is True and the result has one camera, the
\* frame part exactly when suppress_frame_number is True and the result has
\* one frame; ext is the extension of the stored path.
C4_SaveAllNames ==
    rr_call.op = "save_all" =>
        LET oneCam == Cardinality({k[2] : k \in DOMAIN render_paths}) = 1
            oneFrm == Cardinality({k[3] : k \in DOMAIN render_paths}) = 1
            camPart(k) == IF rr_call.suppress_camera_name /\ oneCam THEN <<>>
                          ELSE <<"_">> \o k[2]
            frmPart(k) == IF rr_call.suppress_frame_number /\ oneFrm THEN <<>>
                          ELSE <<"_">> \o format_06d(k[3])
        IN  /\ {cp.key : cp \in rr_call.copies} = DOMAIN render_paths
            /\ \A cp \in rr_call.copies :
                  /\ cp.src = render_paths[cp.key]
                  /\ cp.fname = cp.key[1] \o camPart(cp.key) \o frmPart(cp.key)
                                   \o splitext_1(cp.src)

\* save_all with both suppress flags on a result with two cameras and one
\* frame: the camera part is kept, the frame part is left out
C4_Witness ==
    /\ rr_call.op = "save_all"
    /\ rr_call.suppress_camera_name /\ rr_call.suppress_frame_number
    /\ Cardinality({k[2] : k \in DOMAIN render_paths}) = 2
    /\ Cardinality({k[3] : k \in DOMAIN render_paths}) = 1
    /\ \E cp \in rr_call.copies : cp.fname = <<"a", "_", "c", ".", "p">>

(***************************************************************************)
(* run_this_script and ArgumentParser: a script started from plain Python  *)
(* that relaunches itself inside Blender.                                  *)
(***************************************************************************)
\* Python values
PyNone == [t |-> "NoneType", i |-> 0, s |-> "", b |-> FALSE]
PyInt(n) == [t |-> "int", i |-> n, s |-> "", b |-> FALSE]
PyStr(x) == [t |-> "str", i |-> 0, s |-> x, b |-> FALSE]
PyBool(x) == [t |-> "bool", i |-> 0, s |-> "", b |-> x]

\* str(value)
py_str(value) ==
    CASE value.t = "int" -> ToString(value.i)
      [] value.t = "str" -> value.s
      [] value.t = "bool" -> (IF value.b THEN "True" ELSE "False")
      [] value.t = "NoneType" -> "None"

\* bool(value)
py_bool(value) ==
    CASE value.t = "int" -> value.i # 0
      [] value.t = "str" -> value.s # ""
      [] value.t = "bool" -> value.b
      [] value.t = "NoneType" -> FALSE

\* the integers whose literals occur
IntRange == -20..20

\* int(string): the integer, or ValueError
py_int(string) ==
    IF \E n \in IntRange : ToString(n) = string
    THEN [ok |-> TRUE, v |-> PyInt(CHOOSE n \in IntRange : ToString(n) = string)]
    ELSE [ok |-> FALSE]

\* the first index of x in list, 0 when it is not in it
Index(list, x) ==
    LET at == {i \in DOMAIN list : list[i] = x}
    IN  IF at = {} THEN 0 ELSE CHOOSE i \in at : \A k \in at : i <= k

\* list.pop(i), 1-based
Pop(list, i) == SubSeq(list, 1, i - 1) \o SubSeq(list, i + 1, Len(list))

RECURSIVE Flatten(_)
Flatten(lists) == IF lists = <<>> THEN <<>> ELSE Head(lists) \o Flatten(Tail(lists))

\* the option names in use, in the order scripts mention them
NameOrder == <<"test_arg", "test_arg2", "port", "open_blender", "blend_src", "blend_as_copy">>

\* add_argument("--name", type=..., default=...) calls a script may make
ArgSpecs ==
    {[name |-> "test_arg", type |-> "int", default |-> PyNone],
     [name |-> "test_arg2", type |-> "int", default |-> PyInt(5)],
     [name |-> "port", type |-> "int", default |-> PyInt(7)]}

OptionString(name) == "--" \o name

\* a command-line token that argparse takes for an option, not for a value
LooksLikeOption(token) == \E i \in DOMAIN NameOrder : token = OptionString(NameOrder[i])

ParseError == [ok |-> FALSE, ns |-> <<>>]

RECURSIVE ParseFrom(_, _, _)
\* argparse.ArgumentParser.parse_args over the tokens left: each --name
\* takes the next token as its value, converted by the argument's type
ParseFrom(parser, argv, ns) ==
    IF argv = <<>> THEN [ok |-> TRUE, ns |-> ns]
    ELSE IF \E a \in parser : OptionString(a.name) = Head(argv)
    THEN LET a == CHOOSE x \in parser : OptionString(x.name) = Head(argv)
         IN  IF Len(argv) < 2 \/ LooksLikeOption(argv[2]) THEN ParseError
             ELSE LET value == IF a.type = "int" THEN py_int(argv[2])
                               ELSE [ok |-> TRUE, v |-> PyStr(argv[2])]
                  IN  IF ~value.ok THEN ParseError
                      ELSE ParseFrom(parser, Tail(Tail(argv)),
                                     [ns EXCEPT ![a.name] = value.v])
    ELSE ParseError

\* argparse.ArgumentParser.parse_args(argv): the namespace, or an error (exit)
argparse_parse_args(parser, argv) ==
    ParseFrom(parser, argv, [n \in {a.name : a \in parser} |-> 
                                (CHOOSE a \in parser : a.name = n).default])

\* vars(args): the namespace as keyword arguments, in add_argument order
vars_of(ns) ==
    Flatten([i \in DOMAIN NameOrder |->
                IF NameOrder[i] \in DOMAIN ns
                THEN <<<<NameOrder[i], ns[NameOrder[i]]>>>> ELSE <<>>])

\* the keyword parameters run_this_script declares itself (lines 42-48)
NamedParams == {"open_blender", "debug", "IDE", "port", "host", "blend_src", "blend_as_copy"}

\* the value bound to a declared parameter by a call with keywords kwargs
Bound(kwargs, name, default) ==
    IF \E i \in DOMAIN kwargs : kwargs[i][1] = name
    THEN kwargs[CHOOSE i \in DOMAIN kwargs : kwargs[i][1] = name][2]
    ELSE default

\* what is left for **kwargs
StarKwargs(kwargs) == SelectSeq(kwargs, LAMBDA kv : kv[1] \notin NamedParams)

\* a variant of run_this_script_commands that passes the keys without values
run_this_script_commands_keys_only(args, kwargs) ==
    <<"blender", "--background", "--python", "script.py", "--">>
    \o [i \in DOMAIN args |-> OptionString(args[i])]
    \o Flatten([i \in DOMAIN StarKwargs(kwargs) |->
                  <<OptionString(StarKwargs(kwargs)[i][1])>>])
    \o <<"--sys_path", "tmp.txt", "--run_this_script">>

\* run_this_script outside Blender, lines 77-108: the command it launches
run_this_script_commands(args, kwargs) ==
    LET open_blender  == Bound(kwargs, "open_blender", PyBool(FALSE))
        blend_given   == Bound(kwargs, "blend_src", PyNone)
        blend_as_copy == Bound(kwargs, "blend_as_copy", PyBool(FALSE))
        blend_src     == IF blend_given # PyNone /\ py_bool(blend_as_copy)
                         THEN PyStr("tmp.blend") ELSE blend_given
        rest          == StarKwargs(kwargs)
    IN  <<"blender">>
        \o (IF blend_src # PyNone THEN <<blend_src.s>> ELSE <<>>)
        \o (IF ~py_bool(open_blender) THEN <<"--background">> ELSE <<>>)
        \o <<"--python", "script.py", "--">>
        \o [i \in DOMAIN args |-> OptionString(args[i])]
        \o Flatten([i \in DOMAIN rest |->
                      <<OptionString(rest[i][1]), py_str(rest[i][2])>>])
        \o <<"--sys_path", "tmp.txt">>
        \o <<"--run_this_script">>

\* ArgumentParser.parse_args inside Blender, lines 163-176
parse_args_in_blender(parser, argv_all) ==
    LET argv  == SubSeq(argv_all, Index(argv_all, "--") + 1, Len(argv_all))
        argv1 == IF Index(argv, "--sys_path") # 0
                 THEN Pop(Pop(argv, Index(argv, "--sys_path")), Index(argv, "--sys_path"))
                 ELSE argv
        argv2 == IF Index(argv1, "--run_this_script") # 0
                 THEN Pop(argv1, Index(argv1, "--run_this_script"))
                 ELSE argv1
    IN  argparse_parse_args(parser, argv2)

\* the keyword arguments a script without a parser may pass
WithOrWithout(name, values) == {<<>>} \cup {<<<<name, v>>>> : v \in values}

LiteralKwargs ==
    {a \o b \o c \o d :
        a \in WithOrWithout("test_arg", {PyInt(10), PyNone, PyStr("x")}),
        b \in WithOrWithout("open_blender", {PyBool(TRUE), PyBool(FALSE)}),
        c \in WithOrWithout("blend_src", {PyNone, PyStr("s.blend")}),
        d \in WithOrWithout("blend_as_copy", {PyBool(TRUE)})}

\* the command lines that supply some of the parser's arguments
CommandLines(parser) ==
    LET supplied(name) == IF \E a \in parser : a.name = name
                          THEN {<<>>, <<OptionString(name), "10">>} ELSE {<<>>}
    IN  {a \o b \o c : a \in supplied("test_arg"), b \in supplied("test_arg2"),
                       c \in supplied("port")}

\* A script that calls run_this_script(*args, **kwargs) with literal
\* arguments, or one that builds a blendersynth ArgumentParser, parses and
\* calls run_this_script(**vars(args)); it is started from plain Python.
InitArgs ==
    /\ \/ /\ script \in [kind : {"literal"}, parser : {{}}, args : {<<>>, <<"flag">>},
                         kwargs : LiteralKwargs]
          /\ cli = <<>>
          /\ apc = "call"
       \/ /\ script \in [kind : {"argparse"}, parser : SUBSET ArgSpecs, args : {<<>>},
                         kwargs : {<<>>}]
          /\ cli \in CommandLines(script.parser)
          /\ apc = "parse"
    /\ outer_ns = <<>> /\ rts_call = <<>> /\ sys_argv = <<>> /\ inner_ns = <<>>
    /\ sys_path_file = ""
    /\ IdleRun /\ IdleSplit /\ IdleRR /\ IdleComp /\ IdleCam /\ IdleJobs /\ IdleAnn /\ IdleMesh /\ IdleTemp

\* plain Python: parser.parse_args() is argparse's own parse of sys.argv[1:]
OuterParse ==
    /\ apc = "parse"
    /\ outer_ns' = argparse_parse_args(script.parser, cli)
    /\ apc' = IF outer_ns'.ok THEN "call" ELSE "exit"
    /\ UNCHANGED <<script, cli, rts_call, sys_argv, inner_ns, sys_path_file>>
    /\ UNCHANGED <<runVars, splitVars, rrVars, compVars, camVars, jobVars, annVars, meshVars, tempVars>>

\* plain Python: run_this_script launches Blender on the script and exits
RunThisScript ==
    /\ apc = "call"
    /\ LET kwargs == IF script.kind = "argparse" THEN vars_of(outer_ns.ns)
                     ELSE script.kwargs
       IN  /\ rts_call' = [args |-> script.args, kwargs |-> kwargs]
           /\ sys_argv' = run_this_script_commands(script.args, kwargs)
    /\ apc' = IF script.kind = "argparse" THEN "blender_parse" ELSE "blender_call"
    /\ UNCHANGED <<script, cli, outer_ns, inner_ns, sys_path_file>>
    /\ UNCHANGED <<runVars, splitVars, rrVars, compVars, camVars, jobVars, annVars, meshVars, tempVars>>

\* inside Blender: parser.parse_args()
InnerParse ==
    /\ apc = "blender_parse"
    /\ inner_ns' = parse_args_in_blender(script.parser, sys_argv)
    /\ apc' = IF inner_ns'.ok THEN "blender_call" ELSE "blender_exit"
    /\ UNCHANGED <<script, cli, outer_ns, rts_call, sys_argv, sys_path_file>>
    /\ UNCHANGED <<runVars, splitVars, rrVars, compVars, camVars, jobVars, annVars, meshVars, tempVars>>

\* inside Blender: run_this_script loads sys.path from the --sys_path file
\* (lines 140-144) and the script goes on
InnerRunThisScript ==
    /\ apc = "blender_call"
    /\ sys_path_file' = sys_argv[Index(sys_argv, "--sys_path") + 1]
    /\ apc' = "blender_running"
    /\ UNCHANGED <<script, cli, outer_ns, rts_call, sys_argv, inner_ns>>
    /\ UNCHANGED <<runVars, splitVars, rrVars, compVars, camVars, jobVars, annVars, meshVars, tempVars>>

NextArgs == OuterParse \/ RunThisScript \/ InnerParse \/ InnerRunThisScript

SpecArgs == InitArgs /\ [][NextArgs]_vars

Launched == apc \in {"blender_parse", "blender_call", "blender_exit", "blender_running"}

\* '--k' immediately followed by str(v), after the '--' separator
Forwarded(k, v) ==
    \E j \in DOMAIN sys_argv :
        /\ j > Index(sys_argv, "--") /\ Index(sys_argv, "--") # 0
        /\ j < Len(sys_argv)
        /\ sys_argv[j] = OptionString(k)
        /\ sys_argv[j + 1] = py_str(v)

\* C8 (as stated): every keyword argument k=v passed to run_this_script from
\* plain Python is in Blender's argv as '--k' immediately followed by str(v),
\* after the '--' separator.
C8_EveryKeywordForwarded ==
    Launched =>
        \A i \in DOMAIN rts_call.kwargs :
            Forwarded(rts_call.kwargs[i][1], rts_call.kwargs[i][2])

\* C8 (amended): that holds of every keyword argument that is not one of
\* run_this_script's own parameters (open_blender, debug, IDE, port, host,
\* blend_src, blend_as_copy); those are consumed and not forwarded as '--k'.
C8_StarKeywordsForwarded ==
    Launched =>
        \A i \in DOMAIN rts_call.kwargs :
            LET k == rts_call.kwargs[i][1]
            IN  IF k \notin NamedParams
                THEN Forwarded(k, rts_call.kwargs[i][2])
                ELSE \A j \in DOMAIN sys_argv : sys_argv[j] # OptionString(k)

\* Blender was launched by a call that passes a keyword of its own and one
\* of run_this_script's parameters
C8_Witness ==
    /\ Launched
    /\ \E i \in DOMAIN rts_call.kwargs : rts_call.kwargs[i] = <<"test_arg", PyInt(10)>>
    /\ \E i \in DOMAIN rts_call.kwargs : rts_call.kwargs[i][1] = "open_blender"
    /\ Forwarded("test_arg", PyInt(10))

\* C9: for a script that forwards its parsed namespace with
\* run_this_script(**vars(args)), parse_args inside Blender returns the same
\* values as the parse in plain Python, whichever arguments were supplied.
C9_InnerParseEqualsOuter ==
    (script.kind = "argparse" /\ apc \in {"blender_call", "blender_exit", "blender_running"}) =>
        inner_ns = outer_ns

\* C9 holds when every argument has a value other than None after the outer
\* parse and none is named like a parameter of run_this_script
C9_EqualWhenAllForwardable ==
    (/\ script.kind = "argparse"
     /\ apc \in {"blender_call", "blender_exit", "blender_running"}
     /\ \A n \in DOMAIN outer_ns.ns : outer_ns.ns[n] # PyNone /\ n \notin NamedParams) =>
        inner_ns = outer_ns

(***************************************************************************)
(* The Compositor: the node tree it wires, the file outputs it defines and *)
(* what a render writes.                                                   *)
(***************************************************************************)
MaxColour == 1
MaxOutputs == 2

\* a colour, one number standing for its channels
Colours == 0..MaxColour

\* what the render engine produces for one pixel: its colour and its alpha
Pixels == [rgb : Colours, a : {0, 1}]

\* the Convert Colorspace node, from Non-Color to the named space: every
\* space changes every colour
ConvertColorSpace(to_color_space, c) ==
    CASE to_color_space = "Filmic sRGB" -> c + 10
      [] to_color_space = "AgX Base sRGB" -> c + 20
      [] OTHER -> c + 30

\* the Mix node, blend type Mix: color1 where fac is 0, color2 where it is 1
MixRGB(fac, color1, color2) == (1 - fac) * color1 + fac * color2

\* a pass other than Image and Alpha: raw data of the pixel
RawPass(px) == px.rgb + 100

_default_color_space(version) ==
    IF version >= 4 THEN "AgX Base sRGB" ELSE "Filmic sRGB"

format_to_extension(file_format) ==
    CASE file_format = "PNG" -> ".png"
      [] file_format = "JPEG" -> ".jpg"
      [] file_format = "OPEN_EXR" -> ".exr"

\* os.path.splitext(fname)[0] on the file names in use
remove_ext(fname) == IF fname = "out.v1" THEN "out" ELSE fname

\* os.path.abspath(directory) on the relative directories in use
abspath(directory) == IF directory = "." THEN "/cwd" ELSE "/cwd/" \o directory

Socket(node, io, name) == [node |-> node, io |-> io, name |-> name]

\* node_tree.nodes.new(type), named name
nodes_new(node_tree, type, name) ==
    [node_tree EXCEPT !.nodes = (name :> type) @@ @]

\* node_tree.links.new(from, to): an input socket holds one link
links_new(node_tree, from, to) ==
    [node_tree EXCEPT !.links = {l \in @ : l[2] # to} \cup {<<from, to>>}]

\* the output socket linked to an input socket
LinkedTo(node_tree, input) == (CHOOSE l \in node_tree.links : l[2] = input)[1]

RECURSIVE socket_value(_, _, _)
\* what the node tree computes at an output socket for pixel px; a node
\* group (an overlay) passes its Image input through where it draws nothing
socket_value(self, socket, px) ==
    LET type == self.node_tree.nodes[socket.node]
        input(name) ==
            socket_value(self, LinkedTo(self.node_tree, Socket(socket.node, "in", name)), px)
    IN  CASE type = "CompositorNodeRLayers" ->
                (IF socket.name = "Image" THEN px.rgb
                 ELSE IF socket.name = "Alpha" THEN px.a
                 ELSE RawPass(px))
          [] type = "CompositorNodeConvertColorSpace" ->
                ConvertColorSpace(self.to_color_space, input("0"))
          [] type = "CompositorNodeRGB" -> self.rgb_value
          [] type = "CompositorNodeMixRGB" -> MixRGB(input("Fac"), input("1"), input("2"))
          [] type = "CompositorNodeGroup" -> input("Image")

\* Compositor._get_render_layer_output
_get_render_layer_output(self, key) ==
    IF key = "Image" THEN self._rgb_socket ELSE Socket("Render Layers", "out", key)

\* Compositor._set_rgb_color_space
_set_rgb_color_space(self, color_space) ==
    LET t1 == nodes_new(self.node_tree, "CompositorNodeConvertColorSpace", "Convert Colorspace")
        t2 == links_new(t1, self._rgb_socket, Socket("Convert Colorspace", "in", "0"))
    IN  [self EXCEPT !.node_tree = t2,
                     !.to_color_space = color_space,
                     !._rgb_socket = Socket("Convert Colorspace", "out", "0")]

\* a variant of _set_background_color with the Mix node's colour inputs swapped
_set_background_color_swapped(self, color) ==
    LET t1 == nodes_new(self.node_tree, "CompositorNodeRGB", "RGB")
        t2 == nodes_new(t1, "CompositorNodeMixRGB", "Mix")
        t3 == links_new(t2, self._rgb_socket, Socket("Mix", "in", "1"))
        t4 == links_new(t3, Socket("RGB", "out", "0"), Socket("Mix", "in", "2"))
        t5 == links_new(t4, _get_render_layer_output(self, "Alpha"), Socket("Mix", "in", "Fac"))
    IN  [self EXCEPT !.film_transparent = TRUE,
                     !.node_tree = t5,
                     !.rgb_value = color,
                     !._rgb_socket = Socket("Mix", "out", "Image")]

\* Compositor._set_background_color
_set_background_color(self, color) ==
    LET t1 == nodes_new(self.node_tree, "CompositorNodeRGB", "RGB")
        t2 == nodes_new(t1, "CompositorNodeMixRGB", "Mix")
        t3 == links_new(t2, self._rgb_socket, Socket("Mix", "in", "2"))
        t4 == links_new(t3, Socket("RGB", "out", "0"), Socket("Mix", "in", "1"))
        t5 == links_new(t4, _get_render_layer_output(self, "Alpha"), Socket("Mix", "in", "Fac"))
    IN  [self EXCEPT !.film_transparent = TRUE,
                     !.node_tree = t5,
                     !.rgb_value = color,
                     !._rgb_socket = Socket("Mix", "out", "Image")]

\* Compositor.__init__ in a scene whose node tree holds the Render Layers node
Compositor(background_color, rgb_color_space, version) ==
    LET color_space == IF rgb_color_space.some THEN rgb_color_space.v
                       ELSE _default_color_space(version)
        self == [node_tree |-> [nodes |-> ("Render Layers" :> "CompositorNodeRLayers"),
                                links |-> {}],
                 background_color |-> background_color,
                 view_transform |-> "Raw",
                 film_transparent |-> FALSE,
                 use_pass_object_index |-> FALSE,
                 file_output_nodes |-> <<>>,
                 mask_nodes |-> <<>>,
                 overlays |-> <<>>,
                 aovs |-> <<>>,
                 to_color_space |-> "",
                 rgb_value |-> 0,
                 _rgb_socket |-> Socket("Render Layers", "out", "Image")]
        converted == _set_rgb_color_space(self, color_space)
    IN  IF background_color.some
        THEN _set_background_color(converted, background_color.v)
        ELSE converted

RECURSIVE UniqueName(_, _, _)
\* the name Blender gives a new node asked to be called name: the name itself,
\* or the first free name.001, name.002, ...
UniqueName(node_tree, name, i) ==
    LET candidate == IF i = 0 THEN name ELSE name \o ".00" \o ToString(i)
    IN  IF candidate \in DOMAIN node_tree.nodes
        THEN UniqueName(node_tree, name, i + 1) ELSE candidate

\* str(input_data) once an AOV is replaced by its name (lines 363-367)
str_input_data(input_data) ==
    IF input_data.t = "CompositorNodeGroup"
    THEN "CompositorNodeGroup(" \o input_data.v \o ")"
    ELSE input_data.v

\* the output name of a call, lines 373-374
define_output_name(call) ==
    IF call.name.some THEN call.name.v ELSE str_input_data(call.input_data)

\* Compositor.define_output(input_data, directory, name=..., is_data=...):
\* the compositor afterwards, the exception raised and the name returned
define_output(self, call) ==
    LET with_aov  == IF call.input_data.t = "AOV"
                     THEN [self EXCEPT !.aovs = Append(@, call.input_data.v)]
                     ELSE self
        name      == define_output_name(call)
        node_name == UniqueName(self.node_tree, "File Output " \o name, 0)
        from      == IF call.input_data.t = "CompositorNodeGroup"
                     THEN Socket(call.input_data.v, "out", "Image")
                     ELSE _get_render_layer_output(self, call.input_data.v)
        t1        == nodes_new(self.node_tree, "CompositorNodeOutputFile", node_name)
        t2        == links_new(t1, from, Socket(node_name, "in", "Image"))
        node      == [node |-> node_name,
                      base_path |-> abspath(call.directory),
                      path |-> remove_ext(name),
                      file_format |-> call.file_format,
                      input_data |-> call.input_data.v]
    IN  IF call.is_data.some
        THEN [self |-> self, raised |-> "TypeError", name |-> ""]
        ELSE IF name \in DOMAIN self.file_output_nodes
        THEN [self |-> with_aov, raised |-> "ValueError", name |-> ""]
        ELSE IF call.input_data.t \notin {"str", "AOV", "CompositorNodeGroup"}
        THEN [self |-> [with_aov EXCEPT !.node_tree = t1],
              raised |-> "NotImplementedError", name |-> ""]
        ELSE [self |-> [with_aov EXCEPT !.node_tree = t2,
                                        !.file_output_nodes = (name :> node) @@ @],
              raised |-> None, name |-> name]

VisualName(kind) ==
    CASE kind = "bbox" -> "Bounding Box Visual"
      [] kind = "keypoints" -> "Keypoints Visual"
      [] kind = "axes" -> "Axes Visual"

\* get_bounding_box_visual, get_keypoints_visual, get_axes_visual: the node
\* is made and linked before the check that allows one overlay of a kind
get_visual(self, kind) ==
    LET node == IF kind \in DOMAIN self.overlays THEN VisualName(kind) \o ".001"
                ELSE VisualName(kind)
        t1   == nodes_new(self.node_tree, "CompositorNodeGroup", node)
        t2   == links_new(t1, _get_render_layer_output(self, "Image"),
                          Socket(node, "in", "Image"))
    IN  IF kind \in DOMAIN self.overlays
        THEN [self |-> [self EXCEPT !.node_tree = t2], raised |-> "ValueError"]
        ELSE [self |-> [self EXCEPT !.node_tree = t2, !.overlays = (kind :> node) @@ @],
              raised |-> None]

\* Compositor.get_mask(index, input_rgb) with input_rgb a pass name
get_mask(self, index, input_rgb) ==
    LET node == "Mask - ID: " \o ToString(index) \o " - Input " \o input_rgb
        t1   == nodes_new(self.node_tree, "CompositorNodeGroup", node)
        t2   == links_new(t1, _get_render_layer_output(self, input_rgb),
                          Socket(node, "in", "Image"))
        t3   == links_new(t2, _get_render_layer_output(self, "IndexOB"),
                          Socket(node, "in", "IndexOB"))
    IN  IF index \in DOMAIN self.mask_nodes
        THEN [self EXCEPT !.use_pass_object_index = TRUE]
        ELSE [self EXCEPT !.use_pass_object_index = TRUE,
                          !.node_tree = t3,
                          !.mask_nodes = (index :> [node |-> node, input_rgb |-> input_rgb]) @@ @]

\* the files a static render with one camera leaves once _fix_namings_static
\* has dropped the frame number: one per file output node, holding what the
\* node tree computes at the node's input
rendered_files(self) ==
    {[name |-> name,
      input_data |-> self.file_output_nodes[name].input_data,
      path |-> self.file_output_nodes[name].base_path \o "/"
               \o self.file_output_nodes[name].path
               \o format_to_extension(self.file_output_nodes[name].file_format),
      image |-> [px \in Pixels |->
                    socket_value(self,
                        LinkedTo(self.node_tree,
                                 Socket(self.file_output_nodes[name].node, "in", "Image")),
                        px)]] :
        name \in DOMAIN self.file_output_nodes}

\* Compositor.render(): the function has no return statement
render_returns == [t |-> "NoneType", render_paths |-> <<>>]

\* a script inside Blender has just made comp = Compositor(...)
InitComp ==
    /\ \E background_color \in {Nothing} \cup {Some(c) : c \in Colours},
          rgb_color_space \in {Nothing, Some("Standard")},
          version \in {3, 4} :
            comp = Compositor(background_color, rgb_color_space, version)
    /\ cpc = "script"
    /\ files = {} /\ defined = {} /\ render_ret = <<>> /\ ccall = <<>>
    /\ IdleRun /\ IdleSplit /\ IdleRR /\ IdleArgs /\ IdleCam /\ IdleJobs /\ IdleAnn /\ IdleMesh /\ IdleTemp

\* what a script may hand to define_output as input_data
InputData ==
    {[t |-> "str", v |-> "Image"], [t |-> "str", v |-> "Depth"],
     [t |-> "AOV", v |-> "NormalsAOV"], [t |-> "int", v |-> "5"]}
    \cup {[t |-> "CompositorNodeGroup", v |-> comp.overlays[k]] : k \in DOMAIN comp.overlays}

DefineOutput ==
    /\ cpc = "script"
    /\ Cardinality(defined) < MaxOutputs
    /\ \E input_data \in InputData, directory \in {"rgb", "normal8"},
          name \in {Nothing, Some("out.v1")}, is_data \in {Nothing, Some(TRUE)} :
          LET call == [input_data |-> input_data, directory |-> directory,
                       name |-> name, is_data |-> is_data, file_format |-> "PNG"]
              r    == define_output(comp, call)
          IN  /\ comp' = r.self
              /\ defined' = defined \cup
                    {[call |-> call, raised |-> r.raised, name |-> r.name,
                      fresh |-> define_output_name(call) \notin DOMAIN comp.file_output_nodes]}
              /\ cpc' = IF r.raised = None THEN "script" ELSE "raised"
    /\ UNCHANGED <<files, render_ret, ccall>>
    /\ UNCHANGED <<runVars, splitVars, rrVars, argVars, camVars, jobVars, annVars, meshVars, tempVars>>

GetVisual ==
    /\ cpc = "script"
    /\ \E kind \in {"bbox", "axes"} :
          LET r == get_visual(comp, kind)
          IN  /\ comp' = r.self
              /\ cpc' = IF r.raised = None THEN "script" ELSE "raised"
    /\ UNCHANGED <<files, defined, render_ret, ccall>>
    /\ UNCHANGED <<runVars, splitVars, rrVars, argVars, camVars, jobVars, annVars, meshVars, tempVars>>

GetMask ==
    /\ cpc = "script"
    /\ \E input_rgb \in {"Image", "Depth"} : comp' = get_mask(comp, 1, input_rgb)
    /\ comp' # comp
    /\ UNCHANGED <<cpc, files, defined, render_ret, ccall>>
    /\ UNCHANGED <<runVars, splitVars, rrVars, argVars, camVars, jobVars, annVars, meshVars, tempVars>>

\* render_result = comp.render()
Render ==
    /\ cpc = "script"
    /\ files' = rendered_files(comp)
    /\ render_ret' = render_returns
    /\ cpc' = "rendered"
    /\ UNCHANGED <<comp, defined, ccall>>
    /\ UNCHANGED <<runVars, splitVars, rrVars, argVars, camVars, jobVars, annVars, meshVars, tempVars>>

NextComp == DefineOutput \/ GetVisual \/ GetMask \/ Render

SpecComp == InitComp /\ [][NextComp]_vars

\* C2: render() returns a render result whose get_render_path('key') is, for
\* every output defined beforehand as define_output(input, 'key', ...), the
\* path of the file rendered for that output.
C2_RenderResultPathByKey ==
    cpc = "rendered" =>
        /\ render_ret.t = "RenderResult"
        /\ \A d \in defined :
              \E f \in files :
                  /\ f.name = d.name
                  /\ get_render_path(render_ret.render_paths, d.call.directory,
                                     Nothing, Nothing)
                        = [raised |-> None, value |-> f.path]

\* the input sockets that were linked as consumers of 'Image'
ImageConsumers ==
    {Socket(comp.file_output_nodes[n].node, "in", "Image") :
        n \in {m \in DOMAIN comp.file_output_nodes :
                  comp.file_output_nodes[m].input_data = "Image"}}
    \cup {Socket(comp.overlays[k], "in", "Image") : k \in DOMAIN comp.overlays}
    \cup {Socket(comp.mask_nodes[i].node, "in", "Image") :
            i \in {j \in DOMAIN comp.mask_nodes : comp.mask_nodes[j].input_rgb = "Image"}}

\* the background colour where alpha is 0, the converted render where it is 1
ExpectedImage(px) ==
    IF px.a = 0 THEN comp.background_color.v
    ELSE ConvertColorSpace(comp.to_color_space, px.rgb)

\* C10: with a background_color, every consumer of 'Image' (file output,
\* overlay, mask) and every 'Image' file rendered gets exactly the background
\* colour where the render's alpha is 0 and the colour-space-converted render
\* where it is 1.
C10_BackgroundMixedAfterConversion ==
    (cpc # "idle" /\ comp.background_color.some) =>
        /\ \A s \in ImageConsumers : \A px \in Pixels :
              socket_value(comp, LinkedTo(comp.node_tree, s), px) = ExpectedImage(px)
        /\ \A f \in files : f.input_data = "Image" =>
              \A px \in Pixels : f.image[px] = ExpectedImage(px)

\* an 'Image' output was rendered with a background colour that differs from
\* the converted render, while an overlay and a mask read 'Image' too
C10_Witness ==
    /\ cpc = "rendered" /\ comp.background_color.some
    /\ \E f \in files :
          /\ f.input_data = "Image"
          /\ \E px \in Pixels :
                px.a = 0 /\ f.image[px] = comp.background_color.v
                         /\ f.image[px] # ConvertColorSpace(comp.to_color_space, px.rgb)
    /\ DOMAIN comp.overlays # {}
    /\ \E i \in DOMAIN comp.mask_nodes : comp.mask_nodes[i].input_rgb = "Image"

\* the File Output nodes in the node tree
FileOutputNodes ==
    {n \in DOMAIN comp.node_tree.nodes :
        comp.node_tree.nodes[n] = "CompositorNodeOutputFile"}

\* C11: define_output succeeds exactly when its output name has not been
\* defined before, whatever the input; a call with a defined name raises
\* ValueError; and there is exactly one File Output node per defined name.
C11_OneFileOutputNodePerName ==
    cpc # "idle" =>
        /\ \A d \in defined : (d.raised = None) <=> d.fresh
        /\ \A d \in defined : ~d.fresh => d.raised = "ValueError"
        /\ Cardinality(FileOutputNodes) = Cardinality(DOMAIN comp.file_output_nodes)

\* C11 for the calls that pass a pass name, an AOV or a node group and no
\* undeclared keyword
C11_SupportedCallsSucceedIffFresh ==
    cpc # "idle" =>
        \A d \in defined :
            (d.call.input_data.t # "int" /\ ~d.call.is_data.some) =>
                /\ (d.raised = None) <=> d.fresh
                /\ ~d.fresh => d.raised = "ValueError"

(***************************************************************************)
(* Compositor.render over a list of cameras: what each render writes and   *)
(* how the files are renamed afterwards.                                   *)
(***************************************************************************)
MaxCams == 2

\* the N of _get_badfname and of _all_anim_frames
BadFnameN == 100
AnimFramesN == 1000

\* camera names and output file names; some contain the '_' the renaming adds
CamNamePool == <<"a", "a_b", "d", "e">>
CamNames == {CamNamePool[i] : i \in 1..MaxCams}
OutputPaths == {"c", "b_c"}

\* f"{i:04d}"
format_04d(i) ==
    IF i < 10 THEN "000" \o ToString(i)
    ELSE IF i < 100 THEN "00" \o ToString(i)
    ELSE IF i < 1000 THEN "0" \o ToString(i)
    ELSE ToString(i)

\* shutil.move(src, dst) on the files of disk
move(files_on_disk, src, dst) ==
    [q \in (DOMAIN files_on_disk \ {src}) \cup {dst} |->
        IF q = dst THEN files_on_disk[src] ELSE files_on_disk[q]]

\* the frames one render writes
RenderFrames(call) ==
    IF call.animation THEN call.frame_start..call.frame_end ELSE {call.frame_current}

\* blender's render with camera cam active: every File Output node writes
\* <base_path>/<path><frame:04d><ext> for every frame rendered
render_writes(files_on_disk, call, cam) ==
    LET written == {[output |-> call.outputs[o], camera |-> cam, frame |-> f] :
                        o \in DOMAIN call.outputs, f \in RenderFrames(call)}
        target(w) == call.base_path \o "/" \o w.output \o format_04d(w.frame) \o ".png"
    IN  [q \in DOMAIN files_on_disk \cup {target(w) : w \in written} |->
            IF \E w \in written : target(w) = q
            THEN CHOOSE w \in written : target(w) = q
            ELSE files_on_disk[q]]

\* _get_badfname(fname): the first <f><i:04d><ext> with i < N that exists,
\* or -1 for FileNotFoundError
_get_badfname(files_on_disk, f, ext) ==
    LET found == {i \in 0..(BadFnameN - 1) : (f \o format_04d(i) \o ext) \in DOMAIN files_on_disk}
    IN  IF found = {} THEN -1 ELSE CHOOSE i \in found : \A k \in found : i <= k

RECURSIVE _fix_namings_static(_, _, _, _)
\* Compositor._fix_namings_static over the File Output nodes from the k-th on
_fix_namings_static(files_on_disk, call, prefix, k) ==
    IF k > Len(call.outputs) THEN [disk |-> files_on_disk, raised |-> None]
    ELSE LET f   == call.base_path \o "/" \o call.outputs[k]
             i   == _get_badfname(files_on_disk, f, ".png")
             pre == IF prefix.some THEN prefix.v \o "_" ELSE ""
             dst == call.base_path \o "/" \o pre \o call.outputs[k] \o ".png"
         IN  IF i = -1 THEN [disk |-> files_on_disk, raised |-> "FileNotFoundError"]
             ELSE _fix_namings_static(move(files_on_disk, f \o format_04d(i) \o ".png", dst),
                                      call, prefix, k + 1)

RECURSIVE MoveAnimFrames(_, _, _, _, _)
\* the loop of _fix_namings_animation over _all_anim_frames for one node:
\* frames i, i+1, ... are renamed until the first one that does not exist
MoveAnimFrames(files_on_disk, call, prefix, k, i) ==
    LET name == call.outputs[k] \o format_04d(i) \o ".png"
        src  == call.base_path \o "/" \o name
        dst  == call.base_path \o "/" \o prefix \o "_" \o name
    IN  IF i >= AnimFramesN \/ src \notin DOMAIN files_on_disk THEN files_on_disk
        ELSE MoveAnimFrames(move(files_on_disk, src, dst), call, prefix, k, i + 1)

RECURSIVE _fix_namings_animation(_, _, _, _)
\* Compositor._fix_namings_animation over the File Output nodes from the k-th on
_fix_namings_animation(files_on_disk, call, prefix, k) ==
    IF ~prefix.some \/ k > Len(call.outputs) THEN files_on_disk
    ELSE _fix_namings_animation(MoveAnimFrames(files_on_disk, call, prefix.v, k, 0),
                                call, prefix, k + 1)

RECURSIVE Orderings(_)
\* the lists that hold each element of a set once
Orderings(set) ==
    IF set = {} THEN {<<>>}
    ELSE UNION {{<<x>> \o rest : rest \in Orderings(set \ {x})} : x \in set}

\* comp.render(camera=..., annotations=..., animation=..., frame_start=...,
\* frame_end=...) on a compositor with some outputs, overlays and AOVs, the
\* cameras having pairwise distinct names, the output directory empty
InitCam ==
    /\ \E cams \in UNION {Orderings(c) : c \in SUBSET CamNames \ {{}}},
          multi \in BOOLEAN,
          outputs \in UNION {Orderings(o) : o \in SUBSET OutputPaths \ {{}}},
          animation \in BOOLEAN, first \in {0, 1}, length \in {0, 1},
          annotations \in BOOLEAN, overlays \in SUBSET {"bbox"},
          aovs \in SUBSET {"NormalsAOV"} :
            /\ multi \/ Len(cams) = 1
            /\ animation \/ length = 0
            /\ rcall = [camera |-> cams, multi_camera |-> multi, outputs |-> outputs,
                        base_path |-> "/out", animation |-> animation,
                        frame_start |-> first, frame_end |-> first + length,
                        frame_current |-> first, annotations |-> annotations,
                        overlays |-> overlays, aovs |-> aovs]
    /\ rpc = "loop" /\ ri = 1 /\ disk = <<>> /\ rlog = <<>>
    /\ IdleRun /\ IdleSplit /\ IdleRR /\ IdleArgs /\ IdleComp /\ IdleJobs /\ IdleAnn /\ IdleMesh /\ IdleTemp

\* one iteration of the loop of render, lines 527-546
RenderCamera ==
    /\ rpc = "loop" /\ ri <= Len(rcall.camera)
    /\ LET cam      == rcall.camera[ri]
           prefix   == IF rcall.multi_camera THEN Some(cam) ELSE Nothing
           rendered == render_writes(disk, rcall, cam)
           fixed    == IF rcall.animation
                       THEN [disk |-> _fix_namings_animation(rendered, rcall, prefix, 1),
                             raised |-> None]
                       ELSE _fix_namings_static(rendered, rcall, prefix, 1)
       IN  /\ disk' = fixed.disk
           /\ rlog' = Append(rlog,
                        [camera |-> cam,
                         overlays_updated |-> IF rcall.annotations
                                              THEN {<<o, cam>> : o \in rcall.overlays} ELSE {},
                         aovs_updated |-> rcall.aovs,
                         scene_camera |-> cam,
                         before_fix |-> DOMAIN rendered,
                         after_fix |-> DOMAIN fixed.disk])
           /\ rpc' = IF fixed.raised = None THEN "loop" ELSE "raised"
    /\ ri' = ri + 1
    /\ UNCHANGED rcall
    /\ UNCHANGED <<runVars, splitVars, rrVars, argVars, compVars, jobVars, annVars, meshVars, tempVars>>

\* the loop is over: the active camera is reset and render returns
RenderReturn ==
    /\ rpc = "loop" /\ ri > Len(rcall.camera)
    /\ rpc' = "returned"
    /\ UNCHANGED <<rcall, ri, disk, rlog>>
    /\ UNCHANGED <<runVars, splitVars, rrVars, argVars, compVars, jobVars, annVars, meshVars, tempVars>>

NextCam == RenderCamera \/ RenderReturn

SpecCam == InitCam /\ [][NextCam]_vars

\* C12: given a list of cameras with distinct names, render renders once per
\* camera in list order with that camera active, after updating the overlays
\* and the AOVs, and afterwards every (output, camera) pair (and frame) has
\* its own file: no camera's file was overwritten by a later camera.
C12_EveryCameraKeepsItsFiles ==
    (rpc = "returned" /\ rcall.multi_camera) =>
        /\ [i \in DOMAIN rlog |-> rlog[i].camera] = rcall.camera
        /\ \A i \in DOMAIN rlog :
              /\ rlog[i].scene_camera = rcall.camera[i]
              /\ rlog[i].aovs_updated = rcall.aovs
        /\ \A c \in DOMAIN rcall.camera, o \in DOMAIN rcall.outputs, f \in RenderFrames(rcall) :
              \E q \in DOMAIN disk :
                  disk[q] = [output |-> rcall.outputs[o], camera |-> rcall.camera[c],
                             frame |-> f]

\* C12 for a render of single frames whose cameras and outputs have no '_' in
\* their names
C12_HoldsForStaticPlainNames ==
    (/\ rpc = "returned" /\ rcall.multi_camera /\ ~rcall.animation
     /\ \A c \in DOMAIN rcall.camera : rcall.camera[c] # "a_b"
     /\ \A o \in DOMAIN rcall.outputs : rcall.outputs[o] # "b_c") =>
        \A c \in DOMAIN rcall.camera, o \in DOMAIN rcall.outputs :
            \E q \in DOMAIN disk :
                disk[q] = [output |-> rcall.outputs[o], camera |-> rcall.camera[c],
                           frame |-> rcall.frame_current]

(***************************************************************************)
(* From a BlenderThread's jobs to the Inputs of one Blender subprocess.    *)
(* A string is a sequence of pieces, each a comma or a text without comma. *)
(***************************************************************************)
MaxListLen == 4
MaxChunk == 3

\* job paths; a file name may hold a comma
JobPaths == {<<"a.json">>, <<"b.json">>, <<"c", ",", "d.json">>}

\* the extra keyword arguments of execute_jobs, as (key, str(value)) pairs
ScriptKwargs ==
    {<<>>, << <<"seed", "1">> >>, << <<"jobs", "x.json">> >>, << <<"mode", "--jobs">> >>}

RECURSIVE str_join(_)
\* ",".join(list)
str_join(list) ==
    IF list = <<>> THEN <<>>
    ELSE IF Len(list) = 1 THEN list[1]
    ELSE list[1] \o <<",">> \o str_join(Tail(list))

RECURSIVE str_split(_)
\* string.split(",")
str_split(string) ==
    LET at == Index(string, ",")
    IN  IF at = 0 THEN <<string>>
        ELSE <<SubSeq(string, 1, at - 1)>> \o str_split(SubSeq(string, at + 1, Len(string)))

\* BlenderCommand.__init__(blender_loc, background=True) and compose(script, **kwargs)
compose(script_kwargs) ==
    <<<<"blender">>, <<"--background">>, <<"--python">>, <<"script.py">>, <<"--">>>>
    \o Flatten([i \in DOMAIN script_kwargs |->
                  <<<<"--" \o script_kwargs[i][1]>>, <<script_kwargs[i][2]>>>>])

\* BlenderCommand.set_job
set_job(command, job_list) == command \o <<<<"--jobs">>, str_join(job_list)>>

\* BlenderCommand.set_logger
set_logger(command, log_loc) == command \o <<<<"--log">>, <<log_loc>>>>

\* Inputs.__init__, line 20: Inputs.jsons from sys.argv
Inputs_jsons(argv) == str_split(argv[Index(argv, <<"--jobs">>) + 1])

\* a thread is about to be built for a list of jobs
InitJobs ==
    /\ jargs \in [jobs : UNION {[1..n -> JobPaths] : n \in 0..MaxListLen},
                  MAX_PER_JOB : 1..MaxChunk,
                  script_kwargs : ScriptKwargs]
    /\ jpc = "new" /\ jthread = <<>> /\ jproc = <<>> /\ jread = <<>>
    /\ IdleRun /\ IdleSplit /\ IdleRR /\ IdleArgs /\ IdleComp /\ IdleCam /\ IdleAnn /\ IdleMesh /\ IdleTemp

\* BlenderThread(command, jobs, ..., MAX_PER_JOB=...)
BuildThread ==
    /\ jpc = "new"
    /\ IF BlenderThread_raises(jargs.jobs, jargs.MAX_PER_JOB)
       THEN jpc' = "raised" /\ UNCHANGED jthread
       ELSE /\ jpc' = "built"
            /\ jthread' = BlenderThread(jargs.jobs, 0, Timeout, jargs.MAX_PER_JOB)
    /\ UNCHANGED <<jargs, jproc, jread>>
    /\ UNCHANGED <<runVars, splitVars, rrVars, argVars, compVars, camVars, annVars, meshVars, tempVars>>

\* BlenderThread.start_job(job), for any of the thread's chunks
StartJob ==
    /\ jpc = "built"
    /\ \E job \in 1..jthread.njobs :
          jproc' = [job |-> job,
                    job_list |-> jthread.jobs[job],
                    command |-> set_logger(set_job(compose(jargs.script_kwargs),
                                                   jthread.jobs[job]),
                                           "progress.log")]
    /\ jpc' = "started"
    /\ UNCHANGED <<jargs, jthread, jread>>
    /\ UNCHANGED <<runVars, splitVars, rrVars, argVars, compVars, camVars, annVars, meshVars, tempVars>>

\* in the subprocess: inputs = Inputs()
InputsInit ==
    /\ jpc = "started"
    /\ jread' = Inputs_jsons(jproc.command)
    /\ jpc' = "read"
    /\ UNCHANGED <<jargs, jthread, jproc>>
    /\ UNCHANGED <<runVars, splitVars, rrVars, argVars, compVars, camVars, annVars, meshVars, tempVars>>

NextJobs == BuildThread \/ StartJob \/ InputsInit

SpecJobs == InitJobs /\ [][NextJobs]_vars

\* C13: for a non-empty job list and MAX_PER_JOB >= 1 the thread holds
\* ceil(n / MAX_PER_JOB) chunks of at least one and at most MAX_PER_JOB jobs
\* whose concatenation in order is the job list, and no subprocess receives
\* more than MAX_PER_JOB jobs.
C13_ChunksPartitionJobs ==
    /\ (jpc \in {"built", "started", "read"} /\ jargs.jobs # <<>>) =>
          /\ jthread.njobs = Ceil(Len(jargs.jobs), jargs.MAX_PER_JOB)
          /\ Len(jthread.jobs) = jthread.njobs
          /\ \A j \in DOMAIN jthread.jobs :
                Len(jthread.jobs[j]) >= 1 /\ Len(jthread.jobs[j]) <= jargs.MAX_PER_JOB
          /\ Flatten(jthread.jobs) = jargs.jobs
    /\ jpc \in {"started", "read"} => Len(jproc.job_list) <= jargs.MAX_PER_JOB

\* a subprocess was started on the last, shorter chunk of several
C13_Witness ==
    /\ jpc = "started"
    /\ jthread.njobs >= 2
    /\ jproc.job = jthread.njobs
    /\ Len(jproc.job_list) < jargs.MAX_PER_JOB
    /\ Len(jthread.jobs[1]) = jargs.MAX_PER_JOB

\* C14: the job list a subprocess reads (Inputs.jsons) equals, element for
\* element and in order, the chunk passed to set_job for that subprocess, for
\* every job path and every set of extra script keyword arguments.
C14_InputsReadTheChunk ==
    jpc = "read" => jread = jproc.job_list

\* C14 when no job path holds a comma and no extra keyword argument is
\* called jobs or has the value '--jobs'
C14_HoldsWithoutCommaOrJobsKeyword ==
    (/\ jpc = "read"
     /\ \A i \in DOMAIN jproc.job_list : Index(jproc.job_list[i], ",") = 0
     /\ \A i \in DOMAIN jargs.script_kwargs :
           jargs.script_kwargs[i][1] # "jobs" /\ jargs.script_kwargs[i][2] # "--jobs") =>
        jread = jproc.job_list

(***************************************************************************)
(* Stacking overlays and renaming outputs on a Compositor.                 *)
(***************************************************************************)
\* the overlays obtained from this compositor, and one that was not
Obtained(self) == {self.overlays[k] : k \in DOMAIN self.overlays}
ForeignVisual == "Other Visual"

MaxVisuals == 3

RECURSIVE StackLinks(_, _, _)
\* lines 299-300: for va, vb in zip(visuals, visuals[1:]), from the i-th pair on
StackLinks(node_tree, visuals, i) ==
    IF i >= Len(visuals) THEN node_tree
    ELSE StackLinks(links_new(node_tree, Socket(visuals[i], "out", "Image"),
                              Socket(visuals[i + 1], "in", "Image")),
                    visuals, i + 1)

\* a variant of stack_visuals that links each visual into the one before it
stack_visuals_reversed(self, visuals) ==
    IF Len(visuals) < 2 \/ \E i \in DOMAIN visuals : visuals[i] \notin Obtained(self)
    THEN [self |-> self, raised |-> "ValueError", ret |-> ""]
    ELSE [self |-> [self EXCEPT !.node_tree =
                        StackLinks(@, [i \in DOMAIN visuals |->
                                          visuals[Len(visuals) + 1 - i]], 1)],
          raised |-> None, ret |-> visuals[Len(visuals)]]

\* Compositor.stack_visuals(*visuals)
stack_visuals(self, visuals) ==
    IF Len(visuals) < 2
    THEN [self |-> self, raised |-> "ValueError", ret |-> ""]
    ELSE IF \E i \in DOMAIN visuals : visuals[i] \notin Obtained(self)
    THEN [self |-> self, raised |-> "ValueError", ret |-> ""]
    ELSE [self |-> [self EXCEPT !.node_tree = StackLinks(@, visuals, 1)],
          raised |-> None, ret |-> visuals[Len(visuals)]]

\* a variant of update_filename that renames every output (update_all_filenames)
update_filename_all(self, key, fname) ==
    IF key \notin DOMAIN self.file_output_nodes
    THEN [self |-> self, raised |-> "KeyError"]
    ELSE [self |-> [self EXCEPT !.file_output_nodes =
                        [n \in DOMAIN @ |-> [@[n] EXCEPT !.path = remove_ext(fname)]]],
          raised |-> None]

\* Compositor.update_filename(key, fname)
update_filename(self, key, fname) ==
    IF key \notin DOMAIN self.file_output_nodes
    THEN [self |-> self, raised |-> "KeyError"]
    ELSE [self |-> [self EXCEPT !.file_output_nodes[key].path = remove_ext(fname)],
          raised |-> None]

\* Compositor.update_directory(key, directory)
update_directory(self, key, directory) ==
    IF key \notin DOMAIN self.file_output_nodes
    THEN [self |-> self, raised |-> "KeyError"]
    ELSE [self |-> [self EXCEPT !.file_output_nodes[key].base_path = directory],
          raised |-> None]

\* get_bounding_box_visual, get_keypoints_visual or get_axes_visual
GetAnyVisual ==
    /\ cpc = "script"
    /\ \E kind \in {"bbox", "keypoints", "axes"} :
          LET r == get_visual(comp, kind)
          IN  /\ comp' = r.self
              /\ cpc' = IF r.raised = None THEN "script" ELSE "raised"
    /\ ccall' = <<>>
    /\ UNCHANGED <<files, defined, render_ret>>
    /\ UNCHANGED <<runVars, splitVars, rrVars, argVars, camVars, jobVars, annVars, meshVars, tempVars>>

\* define_output of a pass under its own name
DefinePass ==
    /\ cpc = "script"
    /\ \E input_data \in {"Image", "Depth"}, directory \in {"rgb", "normal8"} :
          LET r == define_output(comp,
                     [input_data |-> [t |-> "str", v |-> input_data],
                      directory |-> directory, name |-> Nothing, is_data |-> Nothing,
                      file_format |-> "PNG"])
          IN  /\ comp' = r.self
              /\ cpc' = IF r.raised = None THEN "script" ELSE "raised"
    /\ ccall' = <<>>
    /\ UNCHANGED <<files, defined, render_ret>>
    /\ UNCHANGED <<runVars, splitVars, rrVars, argVars, camVars, jobVars, annVars, meshVars, tempVars>>

StackVisuals ==
    /\ cpc = "script"
    /\ \E visuals \in UNION {[1..n -> Obtained(comp) \cup {ForeignVisual}] :
                                n \in 0..MaxVisuals} :
          LET r == stack_visuals(comp, visuals)
          IN  /\ comp' = r.self
              /\ ccall' = [op |-> "stack_visuals", visuals |-> visuals, before |-> comp,
                           raised |-> r.raised, ret |-> r.ret]
              /\ cpc' = IF r.raised = None THEN "called" ELSE "raised"
    /\ UNCHANGED <<files, defined, render_ret>>
    /\ UNCHANGED <<runVars, splitVars, rrVars, argVars, camVars, jobVars, annVars, meshVars, tempVars>>

UpdateFilename ==
    /\ cpc = "script"
    /\ \E key \in {"Image", "Depth", "Normal"}, fname \in {"out.v1", "g"} :
          LET r == update_filename(comp, key, fname)
          IN  /\ comp' = r.self
              /\ ccall' = [op |-> "update_filename", key |-> key, arg |-> fname,
                           before |-> comp, raised |-> r.raised]
              /\ cpc' = IF r.raised = None THEN "called" ELSE "raised"
    /\ UNCHANGED <<files, defined, render_ret>>
    /\ UNCHANGED <<runVars, splitVars, rrVars, argVars, camVars, jobVars, annVars, meshVars, tempVars>>

UpdateDirectory ==
    /\ cpc = "script"
    /\ \E key \in {"Image", "Depth", "Normal"}, directory \in {"/tmp/d"} :
          LET r == update_directory(comp, key, directory)
          IN  /\ comp' = r.self
              /\ ccall' = [op |-> "update_directory", key |-> key, arg |-> directory,
                           before |-> comp, raised |-> r.raised]
              /\ cpc' = IF r.raised = None THEN "called" ELSE "raised"
    /\ UNCHANGED <<files, defined, render_ret>>
    /\ UNCHANGED <<runVars, splitVars, rrVars, argVars, camVars, jobVars, annVars, meshVars, tempVars>>

\* a script that obtains overlays and defines outputs, then makes one call of
\* stack_visuals, update_filename or update_directory
NextStack == GetAnyVisual \/ DefinePass \/ StackVisuals \/ UpdateFilename \/ UpdateDirectory

SpecStack == InitComp /\ [][NextStack]_vars

StackCalled == cpc \in {"called", "raised"} /\ ccall # <<>> /\ ccall.op = "stack_visuals"

\* n >= 2 and every visual was obtained from this compositor
StackAccepts ==
    /\ Len(ccall.visuals) >= 2
    /\ \A i \in DOMAIN ccall.visuals : ccall.visuals[i] \in Obtained(ccall.before)

\* the Image input of each v(i+1) is fed by the Image output of vi
StackFed ==
    \A i \in 1..(Len(ccall.visuals) - 1) :
        LinkedTo(comp.node_tree, Socket(ccall.visuals[i + 1], "in", "Image"))
            = Socket(ccall.visuals[i], "out", "Image")

\* a chain: v1 is fed by a socket that is not the output of one of the visuals
StackStartsOutside ==
    LinkedTo(comp.node_tree, Socket(ccall.visuals[1], "in", "Image"))
        \notin {Socket(ccall.visuals[i], "out", "Image") : i \in DOMAIN ccall.visuals}

\* C15 (as stated): stack_visuals raises ValueError without creating a link
\* unless n >= 2 and every vi was obtained from this Compositor; otherwise
\* it returns vn, each v(i+1) is fed by vi, and that is one linear chain
\* from v1 to vn.
C15_StackIsLinearChain ==
    StackCalled =>
        /\ (ccall.raised = "ValueError") <=> ~StackAccepts
        /\ ccall.raised = "ValueError" => comp = ccall.before
        /\ ccall.raised = None =>
              /\ ccall.ret = ccall.visuals[Len(ccall.visuals)]
              /\ StackFed
              /\ StackStartsOutside

\* C15 (amended): as stated, but each v(i+1) is fed by vi in one linear chain
\* from v1 to vn provided the vi are pairwise distinct overlays that were not
\* stacked before; v1 keeps the input it had.
C15_StackChainWhenDistinct ==
    StackCalled =>
        /\ (ccall.raised = "ValueError") <=> ~StackAccepts
        /\ ccall.raised = "ValueError" => comp = ccall.before
        /\ ccall.raised = None =>
              /\ ccall.ret = ccall.visuals[Len(ccall.visuals)]
              /\ (\A i, j \in DOMAIN ccall.visuals :
                        ccall.visuals[i] = ccall.visuals[j] => i = j) =>
                    /\ StackFed
                    /\ StackStartsOutside
                    /\ LinkedTo(comp.node_tree, Socket(ccall.visuals[1], "in", "Image"))
                          = LinkedTo(ccall.before.node_tree,
                                     Socket(ccall.visuals[1], "in", "Image"))

\* three different overlays were stacked into a chain, the first still fed by
\* the compositor's 'Image' socket
C15_Witness ==
    /\ StackCalled /\ ccall.raised = None
    /\ Len(ccall.visuals) = 3
    /\ Cardinality({ccall.visuals[i] : i \in DOMAIN ccall.visuals}) = 3
    /\ StackFed
    /\ LinkedTo(comp.node_tree, Socket(ccall.visuals[1], "in", "Image")) = comp._rgb_socket

\* C16: update_filename(key, fname) changes only the file name of the output
\* named key, to fname without its extension; update_directory(key, d)
\* changes only that output's directory. Everything else of the compositor,
\* the other outputs included, is as before.
C16_UpdateChangesOneField ==
    (cpc = "called" /\ ccall # <<>> /\ ccall.op \in {"update_filename", "update_directory"}) =>
        /\ ccall.op = "update_filename" =>
              comp = [ccall.before EXCEPT
                        !.file_output_nodes[ccall.key].path = remove_ext(ccall.arg)]
        /\ ccall.op = "update_directory" =>
              comp = [ccall.before EXCEPT
                        !.file_output_nodes[ccall.key].base_path = ccall.arg]

\* with two outputs defined, one was given a new file name that had an extension
C16_Witness ==
    /\ cpc = "called" /\ ccall # <<>> /\ ccall.op = "update_filename"
    /\ ccall.arg = "out.v1"
    /\ DOMAIN comp.file_output_nodes = {"Image", "Depth"}
    /\ comp.file_output_nodes[ccall.key].path = "out"
    /\ \E n \in DOMAIN comp.file_output_nodes : comp.file_output_nodes[n].path # "out"

(***************************************************************************)
(* Annotations: Annotation.union and AnnotationHandler.union.              *)
(***************************************************************************)
\* ANN_TYPES
ANN_TYPES == <<"bbox", "keypoints", "axes">>

\* the camera names the handlers may hold annotations for
AnnCameraNames == {"Camera", "Camera.001"}
AnnCameraRank == [c \in AnnCameraNames |-> IF c = "Camera" THEN 0 ELSE 1]

\* the values of `priority` tried: the two the code names, and another string
Priorities == {"self", "other", "first"}

\* Annotation(bbox, keypoints, axes): a new object, whose identity is `id`
Annotation(id, bbox, keypoints, axes) ==
    [id |-> id, bbox |-> bbox, keypoints |-> keypoints, axes |-> axes]

\* Annotation._set: the object with one attribute replaced
Annotation_set(a, item, value) == [a EXCEPT ![item] = value]

\* vals[priority] of Annotation.union raises KeyError for any other key
Annotation_union_raises(priority) ==
    IF priority \in {"self", "other"} THEN None ELSE "KeyError"

\* the loop of Annotation.union from its k-th annotation type on
RECURSIVE union_loop(_, _, _, _, _)
union_loop(combined, self, other, priority, k) ==
    IF k > Len(ANN_TYPES) THEN combined
    ELSE LET ann_type == ANN_TYPES[k]
             vals == [self |-> self[ann_type], other |-> other[ann_type]]
             low_priority == IF priority = "other" THEN "self" ELSE "other"
             next == IF vals[priority] # None
                        THEN Annotation_set(combined, ann_type, vals[priority])
                     ELSE IF vals[low_priority] # None
                        THEN Annotation_set(combined, ann_type, vals[low_priority])
                     ELSE combined
         IN  union_loop(next, self, other, priority, k + 1)

\* Annotation.union with the low priority operand read first
Annotation_union_low_first(self, other, priority, id) ==
    union_loop(Annotation(id, None, None, None), self, other,
               IF priority = "other" THEN "self" ELSE "other", 1)
\* Annotation.union(other, priority), when it does not raise; the result is object `id`
Annotation_union(self, other, priority, id) ==
    union_loop(Annotation(id, None, None, None), self, other, priority, 1)

\* AnnotationHandler.get_annotation_by_camera: a new empty Annotation when not found
get_annotation_by_camera(data, camera_name, id) ==
    IF camera_name \in DOMAIN data THEN data[camera_name]
    ELSE Annotation(id, None, None, None)

\* AnnotationHandler.union(other, priority): what it raises
AnnotationHandler_union_raises(self, other, is_handler, priority) ==
    IF ~is_handler THEN "AssertionError"
    ELSE IF DOMAIN self \cup DOMAIN other = {} THEN None
    ELSE Annotation_union_raises(priority)

\* AnnotationHandler.union(other, priority): the _data of the handler returned;
\* the objects it creates are numbered from `id`
AnnotationHandler_union(self, other, priority, id) ==
    [camera_name \in DOMAIN self \cup DOMAIN other |->
        LET base == id + 3 * AnnCameraRank[camera_name]
            self_ann == get_annotation_by_camera(self, camera_name, base)
            other_ann == get_annotation_by_camera(other, camera_name, base + 1)
        IN  Annotation_union(self_ann, other_ann, priority, base + 2)]

\* the handlers whose annotations hold None or `tag`, their objects numbered from `id`
Handlers(tag, id) ==
    UNION {{[c \in C |-> Annotation(id + AnnCameraRank[c], f[c][1], f[c][2], f[c][3])] :
               f \in [C -> {None, tag} \X {None, tag} \X {None, tag}]} :
           C \in SUBSET AnnCameraNames}

\* the first object identity not used by the operands
AnnFreshId == 2 * Cardinality(AnnCameraNames)

InitAnn ==
    /\ ann_self \in Handlers("u", 0)
    /\ ann_other \in Handlers("v", Cardinality(AnnCameraNames))
    /\ ann_call = <<>>
    /\ IdleRun /\ IdleSplit /\ IdleRR /\ IdleArgs /\ IdleComp /\ IdleCam /\ IdleJobs /\ IdleMesh /\ IdleTemp

\* self.union(other, priority=priority) on the two handlers
HandlerUnion(priority) ==
    /\ ann_call = <<>>
    /\ LET raised == AnnotationHandler_union_raises(ann_self, ann_other, TRUE, priority)
       IN  ann_call' = [op |-> "AnnotationHandler.union", priority |-> priority,
                        before |-> <<ann_self, ann_other>>,
                        self |-> ann_self, other |-> ann_other, raised |-> raised,
                        ret |-> IF raised = None
                                   THEN AnnotationHandler_union(ann_self, ann_other, priority, AnnFreshId)
                                   ELSE <<>>]
    /\ UNCHANGED <<ann_self, ann_other>>
    /\ UNCHANGED <<runVars, splitVars, rrVars, argVars, compVars, camVars, jobVars, meshVars, tempVars>>

\* self + other on the two handlers
HandlerAdd ==
    /\ ann_call = <<>>
    /\ ann_call' = [op |-> "AnnotationHandler.__add__", priority |-> "other",
                    before |-> <<ann_self, ann_other>>,
                        self |-> ann_self, other |-> ann_other, raised |-> None,
                    ret |-> AnnotationHandler_union(ann_self, ann_other, "other", AnnFreshId)]
    /\ UNCHANGED <<ann_self, ann_other>>
    /\ UNCHANGED <<runVars, splitVars, rrVars, argVars, compVars, camVars, jobVars, meshVars, tempVars>>

\* self.union(other) where other is one Annotation, not a handler
HandlerUnionOfAnnotation(camera_name) ==
    /\ ann_call = <<>>
    /\ camera_name \in DOMAIN ann_other
    /\ ann_call' = [op |-> "AnnotationHandler.union", priority |-> "other",
                    before |-> <<ann_self, ann_other>>,
                    self |-> ann_self, other |-> ann_other,
                    raised |-> AnnotationHandler_union_raises(ann_self, ann_other, FALSE, "other"),
                    ret |-> <<>>]
    /\ UNCHANGED <<ann_self, ann_other>>
    /\ UNCHANGED <<runVars, splitVars, rrVars, argVars, compVars, camVars, jobVars, meshVars, tempVars>>

\* a.union(b, priority=priority) on one Annotation of each handler
AnnotationUnion(c1, c2, priority) ==
    /\ ann_call = <<>>
    /\ c1 \in DOMAIN ann_self /\ c2 \in DOMAIN ann_other
    /\ LET raised == Annotation_union_raises(priority)
       IN  ann_call' = [op |-> "Annotation.union", priority |-> priority,
                        before |-> <<ann_self, ann_other>>,
                        self |-> ann_self[c1], other |-> ann_other[c2], raised |-> raised,
                        ret |-> IF raised = None
                                   THEN Annotation_union(ann_self[c1], ann_other[c2], priority, AnnFreshId)
                                   ELSE <<>>]
    /\ UNCHANGED <<ann_self, ann_other>>
    /\ UNCHANGED <<runVars, splitVars, rrVars, argVars, compVars, camVars, jobVars, meshVars, tempVars>>

NextAnn ==
    \/ \E priority \in Priorities : HandlerUnion(priority)
    \/ HandlerAdd
    \/ \E c \in AnnCameraNames : HandlerUnionOfAnnotation(c)
    \/ \E c1, c2 \in AnnCameraNames, priority \in Priorities : AnnotationUnion(c1, c2, priority)

SpecAnn == InitAnn /\ [][NextAnn]_vars

\* the identities of the Annotation objects the two handlers hold
OperandIds == {ann_self[c].id : c \in DOMAIN ann_self} \cup {ann_other[c].id : c \in DOMAIN ann_other}

\* `r` holds, for each annotation type, the value of `first` unless it is None, else that of `second`
Prefers(r, first, second) ==
    \A k \in DOMAIN ANN_TYPES :
        r[ANN_TYPES[k]] = IF first[ANN_TYPES[k]] # None THEN first[ANN_TYPES[k]]
                          ELSE second[ANN_TYPES[k]]

\* the attributes of the Annotation a handler holds for a camera, all None when it holds none
HeldFor(data, c) ==
    IF c \in DOMAIN data THEN data[c] ELSE Annotation(0, None, None, None)

\* C17: Annotation.union(other, priority) returns a new Annotation holding, per
\* annotation type, the priority operand's value unless it is None and the other
\* operand's value otherwise; AnnotationHandler.union does so per camera over the
\* union of the camera names, a missing camera counting as an empty Annotation;
\* the operands are left as they were.
C17_UnionPrefersPriority ==
    ann_call # <<>> =>
        /\ ann_self = ann_call.before[1] /\ ann_other = ann_call.before[2]
        /\ (ann_call.priority \in {"self", "other"} /\ ann_call.raised # "AssertionError") =>
              /\ ann_call.raised = None
              /\ ann_call.op = "Annotation.union" =>
                    /\ ann_call.ret.id \notin OperandIds
                    /\ IF ann_call.priority = "self"
                          THEN Prefers(ann_call.ret, ann_call.self, ann_call.other)
                          ELSE Prefers(ann_call.ret, ann_call.other, ann_call.self)
              /\ ann_call.op # "Annotation.union" =>
                    /\ DOMAIN ann_call.ret = DOMAIN ann_call.self \cup DOMAIN ann_call.other
                    /\ \A c \in DOMAIN ann_call.ret :
                          /\ ann_call.ret[c].id \notin OperandIds
                          /\ IF ann_call.priority = "self"
                                THEN Prefers(ann_call.ret[c], HeldFor(ann_call.self, c),
                                             HeldFor(ann_call.other, c))
                                ELSE Prefers(ann_call.ret[c], HeldFor(ann_call.other, c),
                                             HeldFor(ann_call.self, c))

\* a handler union with priority "self" where one camera is held by both handlers with
\* both bounding boxes set, and the other camera only by `other`
C17_Witness ==
    /\ ann_call # <<>>
    /\ ann_call.op = "AnnotationHandler.union" /\ ann_call.priority = "self"
    /\ ann_call.raised = None
    /\ DOMAIN ann_call.self = {"Camera"} /\ DOMAIN ann_call.other = AnnCameraNames
    /\ ann_call.self["Camera"].bbox = "u" /\ ann_call.other["Camera"].bbox = "v"
    /\ ann_call.self["Camera"].axes = None /\ ann_call.other["Camera"].axes = "v"
    /\ ann_call.ret["Camera"].bbox = "u" /\ ann_call.ret["Camera"].axes = "v"
    /\ ann_call.ret["Camera.001"] # ann_call.other["Camera.001"]

(***************************************************************************)
(* Meshes and the AOVs that colour them by instance or class.              *)
(***************************************************************************)
\* the calls of Mesh.__init__ made
MaxInits == 2

\* the two subclasses of AttrRGBAOV; at most one AOV of each is built
AovKinds == {"InstanceRGBAOV", "ClassRGBAOV"}

\* a custom property that was never assigned
NoProperty == -1

\* obj.get(key, 0) and the value a ShaderNodeAttribute reads for a missing property
get(value) == IF value = NoProperty THEN 0 ELSE value

\* default_ids["loaded_mesh"] and default_ids["prim_cube"]
loaded_mesh == 0
prim_cube == 1

\* the class_id arguments tried: left out (None), negative, or one of the default classes
ClassIdArgs == {Nothing, Some(0 - 1), Some(loaded_mesh), Some(prim_cube)}

\* Mesh.set_class_id: the assertions
set_class_id_raises(class_id) ==
    IF ~class_id.some THEN "AssertionError"
    ELSE IF class_id.v < 0 THEN "AssertionError"
    ELSE None

\* Mesh.__init__(obj, class_id=class_id): the scene, the objects and the Mesh list
\* afterwards, and what was raised; the counter is read and incremented before
\* set_class_id checks its argument
Mesh__init__(scn, objs, ms, o, class_id) ==
    LET instance_id == scn.NUM_MESHES
        scn1 == [scn EXCEPT !.NUM_MESHES = scn.NUM_MESHES + 1]
        objs1 == [objs EXCEPT ![o].instance_id = instance_id]
        raised == set_class_id_raises(class_id)
    IN  IF raised # None
           THEN [scene |-> scn1, objects |-> objs1, meshes |-> ms, raised |-> raised]
           ELSE [scene |-> [scn1 EXCEPT !.MAX_CLASSES = Max(scn1.MAX_CLASSES, class_id.v)],
                 objects |-> [objs1 EXCEPT ![o].class_id = class_id.v],
                 meshes |-> Append(ms, [obj |-> o, instance_id |-> instance_id, _meshes |-> TRUE]),
                 raised |-> None]

\* AttrRGBAOV.N of the two subclasses
N(kind, scn) ==
    IF kind = "InstanceRGBAOV" THEN scn.NUM_MESHES + 1 ELSE scn.MAX_CLASSES + 1

\* Compositor._update_aovs which updates no AOV
_update_aovs_none(aovs, stored, scn) == aovs
\* Compositor._update_aovs: aov.update() for every AOV of self.aovs
_update_aovs(aovs, stored, scn) ==
    [a \in DOMAIN aovs |->
        IF \E k \in DOMAIN stored : stored[k] = a
           THEN [aovs[a] EXCEPT !.div = N(aovs[a].kind, scn)]
           ELSE aovs[a]]

InitMesh ==
    /\ bpy_scene = [NUM_MESHES |-> 0, MAX_CLASSES |-> 0]
    /\ bpy_objects = <<>>
    /\ mesh_list = <<>>
    /\ aov_list = <<>>
    /\ self_aovs = <<>>
    /\ by_name = {}
    /\ mcall = "none"
    /\ IdleRun /\ IdleSplit /\ IdleRR /\ IdleArgs /\ IdleComp /\ IdleCam /\ IdleJobs /\ IdleAnn /\ IdleTemp

\* Mesh.from_primitive("cube", class_id=class_id)
FromPrimitive(class_id) ==
    /\ bpy_scene.NUM_MESHES < MaxInits
    /\ LET objs == Append(bpy_objects,
                          [alive |-> TRUE, instance_id |-> NoProperty, class_id |-> NoProperty])
           r == Mesh__init__(bpy_scene, objs, mesh_list, Len(objs),
                             IF class_id.some THEN class_id ELSE Some(prim_cube))
       IN  /\ bpy_scene' = r.scene /\ bpy_objects' = r.objects /\ mesh_list' = r.meshes
           /\ mcall' = "other"
    /\ UNCHANGED <<aov_list, self_aovs, by_name>>
    /\ UNCHANGED <<runVars, splitVars, rrVars, argVars, compVars, camVars, jobVars, annVars, tempVars>>

\* Mesh(obj, class_id=class_id) or Mesh(obj) on an object of the scene
MeshInit(o, class_id) ==
    /\ o \in DOMAIN bpy_objects /\ bpy_objects[o].alive
    /\ bpy_scene.NUM_MESHES < MaxInits
    /\ LET r == Mesh__init__(bpy_scene, bpy_objects, mesh_list, o, class_id)
       IN  /\ bpy_scene' = r.scene /\ bpy_objects' = r.objects /\ mesh_list' = r.meshes
           /\ mcall' = "other"
    /\ UNCHANGED <<aov_list, self_aovs, by_name>>
    /\ UNCHANGED <<runVars, splitVars, rrVars, argVars, compVars, camVars, jobVars, annVars, tempVars>>

\* mesh.set_class_id(class_id)
SetClassId(m, class_id) ==
    /\ m \in DOMAIN mesh_list
    /\ LET o == mesh_list[m].obj
           raised == IF set_class_id_raises(class_id) # None THEN "AssertionError"
                     ELSE IF ~bpy_objects[o].alive THEN "ReferenceError"
                     ELSE None
       IN  /\ mcall' = "other"
           /\ IF raised = None
                 THEN /\ bpy_objects' = [bpy_objects EXCEPT ![o].class_id = class_id.v]
                      /\ bpy_scene' = [bpy_scene EXCEPT
                                         !.MAX_CLASSES = Max(bpy_scene.MAX_CLASSES, class_id.v)]
                 ELSE UNCHANGED <<bpy_objects, bpy_scene>>
    /\ UNCHANGED <<mesh_list, aov_list, self_aovs, by_name>>
    /\ UNCHANGED <<runVars, splitVars, rrVars, argVars, compVars, camVars, jobVars, annVars, tempVars>>

\* mesh.delete()
Delete(m) ==
    /\ m \in DOMAIN mesh_list
    /\ LET o == mesh_list[m].obj
           raised == IF mesh_list[m]._meshes /\ ~bpy_objects[o].alive
                        THEN "ReferenceError" ELSE None
       IN  /\ mcall' = "other"
           /\ IF raised = None /\ mesh_list[m]._meshes
                 THEN /\ bpy_objects' = [bpy_objects EXCEPT ![o].alive = FALSE]
                      /\ mesh_list' = [mesh_list EXCEPT ![m]._meshes = FALSE]
                 ELSE UNCHANGED <<bpy_objects, mesh_list>>
    /\ UNCHANGED <<bpy_scene, aov_list, self_aovs, by_name>>
    /\ UNCHANGED <<runVars, splitVars, rrVars, argVars, compVars, camVars, jobVars, annVars, tempVars>>

\* InstanceRGBAOV() or ClassRGBAOV()
NewAOV(kind) ==
    /\ \A a \in DOMAIN aov_list : aov_list[a].kind # kind
    /\ aov_list' = Append(aov_list, [kind |-> kind, div |-> N(kind, bpy_scene),
                                     built_with |-> N(kind, bpy_scene)])
    /\ mcall' = "other"
    /\ UNCHANGED <<bpy_scene, bpy_objects, mesh_list, self_aovs, by_name>>
    /\ UNCHANGED <<runVars, splitVars, rrVars, argVars, compVars, camVars, jobVars, annVars, tempVars>>

\* comp.define_output(aov): the AOV is stored in self.aovs
DefineOutputAOV(a) ==
    /\ a \in DOMAIN aov_list
    /\ \A k \in DOMAIN self_aovs : self_aovs[k] # a
    /\ self_aovs' = Append(self_aovs, a)
    /\ mcall' = "other"
    /\ UNCHANGED <<bpy_scene, bpy_objects, mesh_list, aov_list, by_name>>
    /\ UNCHANGED <<runVars, splitVars, rrVars, argVars, compVars, camVars, jobVars, annVars, tempVars>>

\* comp.define_output(aov.name): the pass is looked up by its name, nothing is stored
DefineOutputName(a) ==
    /\ a \in DOMAIN aov_list
    /\ a \notin by_name
    /\ by_name' = by_name \cup {a}
    /\ mcall' = "other"
    /\ UNCHANGED <<bpy_scene, bpy_objects, mesh_list, aov_list, self_aovs>>
    /\ UNCHANGED <<runVars, splitVars, rrVars, argVars, compVars, camVars, jobVars, annVars, tempVars>>

\* comp.render(): the AOVs are updated, then the scene is rendered
RenderScene ==
    /\ aov_list' = _update_aovs(aov_list, self_aovs, bpy_scene)
    /\ mcall' = "render"
    /\ UNCHANGED <<bpy_scene, bpy_objects, mesh_list, self_aovs, by_name>>
    /\ UNCHANGED <<runVars, splitVars, rrVars, argVars, compVars, camVars, jobVars, annVars, tempVars>>

NextMesh ==
    \/ \E class_id \in ClassIdArgs : FromPrimitive(class_id)
    \/ \E o \in 1..MaxInits, class_id \in ClassIdArgs : MeshInit(o, class_id)
    \/ \E m \in 1..MaxInits, class_id \in ClassIdArgs : SetClassId(m, class_id)
    \/ \E m \in 1..MaxInits : Delete(m)
    \/ \E kind \in AovKinds : NewAOV(kind)
    \/ \E a \in 1..Cardinality(AovKinds) : DefineOutputAOV(a)
    \/ \E a \in 1..Cardinality(AovKinds) : DefineOutputName(a)
    \/ RenderScene

SpecMesh == InitMesh /\ [][NextMesh]_vars

\* C18: the Meshes constructed so far were given the instance ids 0, 1, 2, ... in
\* creation order, two different objects wrapped as Mesh carry different instance
\* ids, and NUM_MESHES is the number of Meshes constructed.
C18_InstanceIdsCountMeshes ==
    /\ bpy_scene.NUM_MESHES = Len(mesh_list)
    /\ \A m \in DOMAIN mesh_list : mesh_list[m].instance_id = m - 1
    /\ \A m1, m2 \in DOMAIN mesh_list :
          mesh_list[m1].obj # mesh_list[m2].obj =>
              bpy_objects[mesh_list[m1].obj].instance_id # bpy_objects[mesh_list[m2].obj].instance_id

\* the value of the attribute an AOV reads on an object
AttributeOf(aov, object) ==
    IF aov.kind = "InstanceRGBAOV" THEN get(object.instance_id) ELSE get(object.class_id)

\* right after a render, AOV `a` divides by N as of now and maps every object into [0, 1)
Refreshed(a) ==
    /\ aov_list[a].div = N(aov_list[a].kind, bpy_scene)
    /\ \A o \in DOMAIN bpy_objects :
          /\ 0 <= AttributeOf(aov_list[a], bpy_objects[o])
          /\ AttributeOf(aov_list[a], bpy_objects[o]) < aov_list[a].div

AllChunksRan(t) == hist.starts[t] = threads[t].njobs /\ ~is_running(t)

\* C20: when start() has returned from its polling loop, every chunk of every
\* thread has been started and its subprocess has exited.
C20_StartReturnsWhenAllChunksRan ==
    (mpc = "returned" /\ progress_bars) => \A t \in ThreadIds : AllChunksRan(t)

(***************************************************************************)
(* The order of the chunks of one BlenderThread.                           *)
(***************************************************************************)
\* thread t starts a subprocess in this step
StartsChunk(t) == hist'.starts[t] # hist.starts[t]

\* C21: within one BlenderThread a chunk is started only when no subprocess of
\* the thread is left (the one of the chunk before has exited), the chunk started
\* is the one after the last chunk started, none skipped or repeated, and the
\* thread has at most one subprocess alive.
C21_ChunksRunOneAfterAnother ==
    [][\A t \in ThreadIds :
          StartsChunk(t) =>
              /\ blender[t] = Gone
              /\ ~is_running(t)
              /\ hist'.starts[t] = hist.starts[t] + 1
              /\ threads'[t].job = hist.starts[t]
              /\ blender'[t].jsons = threads[t].jobs[hist.starts[t] + 1]
              /\ blender'[t].phase = "boot"]_vars

\* the second chunk of a thread is running, after the first one ran and exited
C21_Witness ==
    \E t \in ThreadIds :
        /\ hist.starts[t] = 2 /\ threads[t].job = 1
        /\ is_running(t) /\ blender[t].phase = "body"
        /\ blender[t].jsons = threads[t].jobs[2]
        /\ hist.done[t] >= 1

(***************************************************************************)
(* start() without progress bars.                                          *)
(***************************************************************************)
\* C22: with progress_bars=False start() does not return while a subprocess is
\* running, and has started every chunk of every thread when it returns, as
\* with progress_bars=True.
C22_NoProgressBarsStillWaits ==
    (mpc = "returned" /\ ~progress_bars) =>
        \A t \in ThreadIds : ~is_running(t) /\ hist.starts[t] = threads[t].njobs

(***************************************************************************)
(* The file names of RenderResult.save_all.                                *)
(***************************************************************************)
\* C23: save_all saves distinct (output, camera, frame) keys under distinct file
\* names, whatever the output and camera names and the two suppress flags, so
\* that no saved file is overwritten by another.
C23_SaveAllNamesDistinct ==
    rr_call.op = "save_all" =>
        \A c1, c2 \in rr_call.copies : c1.key # c2.key => c1.fname # c2.fname

(***************************************************************************)
(* Temp files: the directory <tmp>/blendersynth shared by every            *)
(* blendersynth process of the machine.                                    *)
(***************************************************************************)
\* the blendersynth sessions running on the machine
MaxSessions == 2

SessionIds == 1..MaxSessions

\* how a session is started: a script calling run_this_script (with or without
\* blend_as_copy), or execute_jobs
SessionKinds == {"run_this_script", "run_this_script(blend_as_copy)", "execute_jobs"}

\* create_temp_file: a name of the temp directory that no file has yet
\* (tempfile.mktemp); `what` tells the files of a session apart
create_temp_file(s, what) == <<s, what>>

\* cleanup_temp_files: every file of the directory is removed
cleanup_temp_files(dir, s) == {}

\* a process opens temp file f for reading
Missing(f) == IF f \in tempdir THEN {} ELSE {f}

InitTemp ==
    /\ tempdir = {}
    /\ sessions \in [SessionIds -> {[kind |-> k, pc |-> "start", using |-> {}, missing |-> {}] :
                                       k \in SessionKinds}]
    /\ IdleRun /\ IdleSplit /\ IdleRR /\ IdleArgs /\ IdleComp /\ IdleCam /\ IdleJobs /\ IdleAnn /\ IdleMesh

\* run_this_script, lines 80-83: sys.path is dumped to a temp file
DumpSysPath(s) ==
    /\ sessions[s].pc = "start" /\ sessions[s].kind # "execute_jobs"
    /\ LET sys_path == create_temp_file(s, "sys_path")
       IN  /\ tempdir' = tempdir \cup {sys_path}
           /\ sessions' = [sessions EXCEPT
                 ![s].using = @ \cup {sys_path},
                 ![s].pc = IF sessions[s].kind = "run_this_script" THEN "call" ELSE "copy"]
    /\ UNCHANGED <<runVars, splitVars, rrVars, argVars, compVars, camVars, jobVars, annVars, meshVars>>

\* run_this_script, lines 85-88: the .blend file is copied to a temp file
CopyBlend(s) ==
    /\ sessions[s].pc = "copy"
    /\ LET new_filepath == create_temp_file(s, "blend")
       IN  /\ tempdir' = tempdir \cup {new_filepath}
           /\ sessions' = [sessions EXCEPT ![s].using = @ \cup {new_filepath}, ![s].pc = "call"]
    /\ UNCHANGED <<runVars, splitVars, rrVars, argVars, compVars, camVars, jobVars, annVars, meshVars>>

\* subprocess.call(commands) of run_this_script, or Runner(...) of execute_jobs:
\* Blender is started
StartBlender(s) ==
    /\ \/ sessions[s].pc = "call"
       \/ sessions[s].pc = "start" /\ sessions[s].kind = "execute_jobs"
    /\ sessions' = [sessions EXCEPT ![s].pc = "boot"]
    /\ UNCHANGED tempdir
    /\ UNCHANGED <<runVars, splitVars, rrVars, argVars, compVars, camVars, jobVars, annVars, meshVars>>

\* Blender opens the .blend file of its command line, then the script runs
\* run_this_script inside Blender, which reads the --sys_path file (lines 141-144)
BlenderBoot(s) ==
    /\ sessions[s].pc = "boot"
    /\ sessions' = [sessions EXCEPT
          ![s].missing = @ \cup UNION {Missing(f) : f \in sessions[s].using},
          ![s].using = {},
          ![s].pc = "script"]
    /\ UNCHANGED tempdir
    /\ UNCHANGED <<runVars, splitVars, rrVars, argVars, compVars, camVars, jobVars, annVars, meshVars>>

\* AlphaImageOverlay.create_img in Blender: the overlay image is written to a temp file
CreateImg(s) ==
    /\ sessions[s].pc = "script"
    /\ LET temp_img_loc == create_temp_file(s, "png")
       IN  /\ tempdir' = tempdir \cup {temp_img_loc}
           /\ sessions' = [sessions EXCEPT ![s].using = @ \cup {temp_img_loc}, ![s].pc = "overlay"]
    /\ UNCHANGED <<runVars, splitVars, rrVars, argVars, compVars, camVars, jobVars, annVars, meshVars>>

\* the render composites the overlay: Blender reads the image file
RenderOverlay(s) ==
    /\ sessions[s].pc = "overlay"
    /\ sessions' = [sessions EXCEPT
          ![s].missing = @ \cup UNION {Missing(f) : f \in sessions[s].using},
          ![s].using = {},
          ![s].pc = "rendered"]
    /\ UNCHANGED tempdir
    /\ UNCHANGED <<runVars, splitVars, rrVars, argVars, compVars, camVars, jobVars, annVars, meshVars>>

\* Blender exits: subprocess.call, or Runner(...), returns
BlenderExit(s) ==
    /\ sessions[s].pc \in {"script", "rendered"}
    /\ sessions' = [sessions EXCEPT ![s].pc = "cleanup"]
    /\ UNCHANGED tempdir
    /\ UNCHANGED <<runVars, splitVars, rrVars, argVars, compVars, camVars, jobVars, annVars, meshVars>>

\* cleanup() of run_this_script line 112, or of execute_jobs line 162
Cleanup(s) ==
    /\ sessions[s].pc = "cleanup"
    /\ tempdir' = cleanup_temp_files(tempdir, s)
    /\ sessions' = [sessions EXCEPT ![s].pc = "exited"]
    /\ UNCHANGED <<runVars, splitVars, rrVars, argVars, compVars, camVars, jobVars, annVars, meshVars>>

NextTemp ==
    \E s \in SessionIds :
        \/ DumpSysPath(s)
        \/ CopyBlend(s)
        \/ StartBlender(s)
        \/ BlenderBoot(s)
        \/ CreateImg(s)
        \/ RenderOverlay(s)
        \/ BlenderExit(s)
        \/ Cleanup(s)

SpecTemp == InitTemp /\ [][NextTemp]_vars

\* C24: a temp file a session created is in the temp directory for as long as
\* the session has not finished with it, whatever the other sessions do, and so
\* no session finds a file of its own missing.
C24_TempFilesOutliveTheirUse ==
    \A s \in SessionIds : sessions[s].using \subseteq tempdir /\ sessions[s].missing = {}

====
